---- MODULE Spec2Model ----
(***************************************************************************)
(* Model of the YouTube -> Spotify playlist migrator:                      *)
(*   main.py            run_migration (orchestration loop, match cache)    *)
(*   spotify_client.py  SpotifyClient.search_track (two-attempt search,    *)
(*                      fuzzy scorer)                                      *)
(*   models.py          YouTubeSong / SpotifyTrack / MigrationResult       *)
(* Strings are sequences of one-character strings; Python's None for an   *)
(* Optional[str] is the reserved sequence NoneStr.                         *)
(***************************************************************************)
EXTENDS Integers, Sequences, FiniteSets, TLC

\* ------------------------------------------------------------------ bounds
\* longest source playlist explored
MaxItems == 3
\* longest search response explored inside a migration run
MaxRunCands == 1
\* longest candidate list explored for the scorer on its own
MaxCands == 2

\* ------------------------------------------------------- program constants
FUZZY_MATCH_THRESHOLD == 85

\* --------------------------------------------------------------- strings
NoneStr == <<"<None>">>

\* Python truthiness of an Optional[str]: None and "" are falsy.
Truthy(s) == s # NoneStr /\ s # <<>>

IsSpace(c) == c = " "

UpperCase ==
    <<"A", "B", "C", "D", "E", "F", "G", "H", "I", "J", "K", "L", "M",
      "N", "O", "P", "Q", "R", "S", "T", "U", "V", "W", "X", "Y", "Z">>
LowerCase ==
    <<"a", "b", "c", "d", "e", "f", "g", "h", "i", "j", "k", "l", "m",
      "n", "o", "p", "q", "r", "s", "t", "u", "v", "w", "x", "y", "z">>

\* the lower-case letter of every upper-case letter
LowerMap ==
    [c \in { UpperCase[k] : k \in DOMAIN UpperCase } |->
        LowerCase[CHOOSE k \in DOMAIN UpperCase : UpperCase[k] = c]]

LowerChar(c) == IF c \in DOMAIN LowerMap THEN LowerMap[c] ELSE c

\* str.lower()
Lower(s) == [k \in DOMAIN s |-> LowerChar(s[k])]

RECURSIVE LStrip(_)
LStrip(s) == IF s # <<>> /\ IsSpace(Head(s)) THEN LStrip(Tail(s)) ELSE s

RECURSIVE RStrip(_)
RStrip(s) ==
    IF s # <<>> /\ IsSpace(s[Len(s)]) THEN RStrip(SubSeq(s, 1, Len(s) - 1)) ELSE s

\* str.strip()
Strip(s) == RStrip(LStrip(s))

\* `x or ''`
OrEmpty(s) == IF Truthy(s) THEN s ELSE <<>>

\* ---------------------------------------------------------------- models
\* pydantic str_strip_whitespace on an Optional[str] field
StripField(s) == IF s = NoneStr THEN NoneStr ELSE Strip(s)

\* models.YouTubeSong: only the fields the migration reads
YouTubeSong(artist, song) ==
    [parsed_artist |-> StripField(artist),
     parsed_song_name |-> StripField(song)]

\* models.SpotifyTrack built from a raw search item
SpotifyTrack(uri, name, artists, id) ==
    [uri |-> uri, name |-> name, artists |-> artists, spotify_id |-> id]

\* Optional[SpotifyTrack] = None
NoTrack == [uri |-> "", name |-> "", artists |-> <<>>, spotify_id |-> ""]

\* Optional[int] = None
NoScore == -1

\* mutant of MigrationResult: a result without a score gets the score 0
MigrationResult_ScoreDefaulted(idx, track, score, status) ==
    [item |-> idx, spotify_track |-> track,
     match_score |-> IF score = NoScore THEN 0 ELSE score,
     status |-> status]

\* models.MigrationResult
MigrationResult(idx, track, score, status) ==
    [item |-> idx, spotify_track |-> track, match_score |-> score,
     status |-> status]

\* ------------------------------------------------- search_track: scorer
\* A raw search item is [name, artists, uri, id, score]; a missing key is "".
\* score is what fuzz.token_set_ratio (fuzzywuzzy, outside the repository)
\* answers for the item's candidate string against the target string.
Scores == {0, 84, 85, 100}

\* the list comprehension of the artist names
ItemArtists(item) == SelectSeq(item.artists, LAMBDA n : n # "")

\* `if not spotify_name or not spotify_artists_list: continue`, negated
ItemUsable(item) == item.name # "" /\ ItemArtists(item) # <<>>

\* mutant of ScoreQualifies: the threshold test is dropped
ScoreQualifies_NoThreshold(score, threshold, highest_score) ==
    score > highest_score

\* `score >= self.fuzzy_match_threshold and score > highest_score`
ScoreQualifies(score, threshold, highest_score) ==
    score >= threshold /\ score > highest_score

\* `if spotify_uri and spotify_id`
HasUriAndId(item) == item.uri # "" /\ item.id # ""

\* locals of the scoring loop before the first item; best_idx is a ghost
\* field: the position in the response of the item best_match was built from
ScoreInit == [best_match |-> NoTrack, highest_score |-> 0, best_idx |-> 0]

\* mutant of ScoreStep: the comparison with the threshold is reversed
ScoreStep_ThresholdReversed(acc, item, idx, threshold) ==
    IF ~ItemUsable(item) THEN acc
    ELSE IF item.score <= threshold /\ item.score > acc.highest_score
    THEN IF HasUriAndId(item)
         THEN [best_match |-> SpotifyTrack(item.uri, item.name,
                                           ItemArtists(item), item.id),
               highest_score |-> item.score,
               best_idx |-> idx]
         ELSE [acc EXCEPT !.highest_score = item.score]
    ELSE acc

\* one iteration of `for item in tracks`
ScoreStep(acc, item, idx, threshold) ==
    IF ~ItemUsable(item) THEN acc
    ELSE IF ScoreQualifies(item.score, threshold, acc.highest_score)
    THEN IF HasUriAndId(item)
         THEN [best_match |-> SpotifyTrack(item.uri, item.name,
                                           ItemArtists(item), item.id),
               highest_score |-> item.score,
               best_idx |-> idx]
         ELSE [acc EXCEPT !.highest_score = item.score]
    ELSE acc

RECURSIVE ScoreLoop(_, _, _, _)
ScoreLoop(acc, tracks, idx, threshold) ==
    IF idx > Len(tracks) THEN acc
    ELSE ScoreLoop(ScoreStep(acc, tracks[idx], idx, threshold),
                   tracks, idx + 1, threshold)

\* search_track returning None
NoMatch == [found |-> FALSE, track |-> NoTrack, score |-> NoScore, idx |-> 0]

\* the scoring part of search_track: loop, then `if best_match: return ...`
SelectBest(tracks, threshold) ==
    LET acc == ScoreLoop(ScoreInit, tracks, 1, threshold)
    IN IF acc.best_match # NoTrack
       THEN [found |-> TRUE, track |-> acc.best_match,
             score |-> acc.highest_score, idx |-> acc.best_idx]
       ELSE NoMatch

\* target_str of the fuzzy match
TargetStr(yt_song) ==
    Strip(OrEmpty(yt_song.parsed_artist) \o <<" ">> \o yt_song.parsed_song_name)

\* ----------------------------------------- search_track: the two queries
QueryTargeted(yt_song) ==
    IF Truthy(yt_song.parsed_artist) /\ Truthy(yt_song.parsed_song_name)
    THEN <<"track:">> \o yt_song.parsed_song_name
         \o <<" ", "artist:">> \o yt_song.parsed_artist
    ELSE <<"track:">> \o yt_song.parsed_song_name

QuerySimple(yt_song) ==
    Strip(OrEmpty(yt_song.parsed_artist) \o <<" ">> \o yt_song.parsed_song_name)

\* mutant of NeedBroader: the second attempt is made unconditionally
NeedBroader_Always(trks) == TRUE

\* `if not tracks:` after the targeted attempt
NeedBroader(trks) == trks = <<>>

\* A response of sp.search: either it raises or it returns the items
Raise == [raises |-> TRUE, items |-> <<>>]
Items(its) == [raises |-> FALSE, items |-> its]

\* mutant of AfterTargeted: an error of the targeted call ends the search
AfterTargeted_RaiseEnds(resp) ==
    IF resp.raises THEN [next |-> "return_none", tracks |-> <<>>]
    ELSE IF NeedBroader(resp.items)
    THEN [next |-> "broader", tracks |-> <<>>]
    ELSE [next |-> "score", tracks |-> resp.items]

\* the targeted attempt: both except clauses only log, so `tracks` stays []
\* and the code falls into `if not tracks:`; next is where control goes
AfterTargeted(resp) ==
    LET trks == IF resp.raises THEN <<>> ELSE resp.items
    IN IF NeedBroader(trks)
       THEN [next |-> "broader", tracks |-> <<>>]
       ELSE [next |-> "score", tracks |-> trks]

\* mutant of AfterBroader: an error of the broader call is not caught
AfterBroader_RaisePropagates(resp) ==
    IF resp.raises THEN [next |-> "raise", tracks |-> <<>>]
    ELSE IF resp.items = <<>> THEN [next |-> "return_none", tracks |-> <<>>]
    ELSE [next |-> "score", tracks |-> resp.items]

\* the broader attempt: both except clauses `return None`; then the second
\* `if not tracks: return None`
AfterBroader(resp) ==
    IF resp.raises THEN [next |-> "return_none", tracks |-> <<>>]
    ELSE IF resp.items = <<>> THEN [next |-> "return_none", tracks |-> <<>>]
    ELSE [next |-> "score", tracks |-> resp.items]

\* ------------------------------------------------ run_migration: helpers
\* mutant of LookupKey: the key keeps the letter case
LookupKey_CaseSensitive(yt_song) ==
    << IF Truthy(yt_song.parsed_artist)
       THEN Strip(yt_song.parsed_artist) ELSE NoneStr,
       Strip(yt_song.parsed_song_name) >>

\* lookup_key
LookupKey(yt_song) ==
    << IF Truthy(yt_song.parsed_artist)
       THEN Strip(Lower(yt_song.parsed_artist)) ELSE NoneStr,
       Strip(Lower(yt_song.parsed_song_name)) >>

\* mutant of IsSkipped: only a missing (None) song name is skipped
IsSkipped_NoneOnly(yt_song) == yt_song.parsed_song_name = NoneStr

\* `if not yt_song.parsed_song_name:`
IsSkipped(yt_song) == ~Truthy(yt_song.parsed_song_name)

\* mutant of CacheStore: the assignment is lost
CacheStore_Lost(c, key, track) == c

\* processed_songs_cache[lookup_key] = track (None is NoTrack)
CacheStore(c, key, track) == (key :> track) @@ c

\* mutant of InCache: a key that holds the no-match marker counts as absent
InCache_MatchesOnly(c, key) == key \in DOMAIN c /\ c[key] # NoTrack

\* `if lookup_key in processed_songs_cache`
InCache(c, key) == key \in DOMAIN c

\* mutant of CacheAfterMiss: a no-match verdict is not stored
CacheAfterMiss_OnlyMatches(c, key, r) ==
    IF r.found THEN CacheStore(c, key, r.track) ELSE c

\* what the cache-miss branch stores for the value search_track returned
CacheAfterMiss(c, key, r) ==
    IF r.found THEN CacheStore(c, key, r.track) ELSE CacheStore(c, key, NoTrack)

\* mutant of HitStatus: a hit reports the status of a fresh search
HitStatus_NotCached(track) ==
    IF track # NoTrack THEN "SUCCESS" ELSE "NOT_FOUND"

\* migration_status of the cache-hit branch
HitStatus(track) ==
    IF track # NoTrack THEN "SUCCESS (Cached)" ELSE "NOT_FOUND (Cached)"

\* migration_status of the cache-miss branch
MissStatus(r) == IF r.found THEN "SUCCESS" ELSE "NOT_FOUND"

\* mutant of IsSuccessStatus: only a fresh match counts as a success
IsSuccessStatus_FreshOnly(status) == status = "SUCCESS"

\* `migration_status.startswith("SUCCESS")`
IsSuccessStatus(status) == status \in {"SUCCESS", "SUCCESS (Cached)"}

\* one entry of the log of remote calls and pacing delays (ghost)
SearchEvent(idx, kind, q, resp) ==
    [ev |-> "search", item |-> idx, kind |-> kind, q |-> q,
     outcome |-> IF resp.raises THEN "raise"
                 ELSE IF resp.items = <<>> THEN "empty" ELSE "items"]
SleepEvent(idx) ==
    [ev |-> "sleep", item |-> idx, kind |-> "", q |-> <<>>, outcome |-> ""]
CallEvent(idx) ==
    [ev |-> "search_track", item |-> idx, kind |-> "", q |-> <<>>, outcome |-> ""]

\* ------------------------------------------------------------- inputs
\* (artist, song) pairs as parse_artist_song_from_title may hand them to the
\* YouTubeSong constructor
RawParsed ==
    { <<<<"a">>, <<"s">>>>,
      <<<<"A", " ">>, <<" ", "S">>>>,
      <<NoneStr, <<"s">>>>,
      <<<<>>, NoneStr>>,
      <<<<"A">>, <<" ">>>> }

SongPool == { YouTubeSong(p[1], p[2]) : p \in RawParsed }

SeqsUpTo(S, n) == UNION { [1..k -> S] : k \in 0..n }

Playlists == SeqsUpTo(SongPool, MaxItems)

\* raw search items
ItemPool ==
    [name : {"", "n"}, artists : {<<"">>, <<"x">>},
     uri : {"", "u1", "u2"}, id : {"", "i"}, score : Scores]

\* the items the scorer is explored on: every usable item, one item without
\* a name and one without an artist name
ScorerItemPool ==
    { it \in ItemPool :
         \/ ItemUsable(it) /\ (it.uri # "" \/ it.id # "") /\ (it.uri # "u2" \/ it.id # "")
         \/ it.name = "" /\ it.artists = <<"x">> /\ it.uri = "u1" /\ it.id = "i" /\ it.score = 100
         \/ it.name = "n" /\ it.artists = <<"">> /\ it.uri = "u1" /\ it.id = "i" /\ it.score = 100 }

\* thresholds the scorer is explored on
Thresholds == {0, FUZZY_MATCH_THRESHOLD, 100}

\* the items a search inside a migration run may return
RunItemPool ==
    { it \in ItemPool : it.name = "n" /\ it.artists = <<"x">>
                        /\ it.id = "i" /\ it.score \in {84, 100} }

RunResponses == {Raise} \cup { Items(its) : its \in SeqsUpTo(RunItemPool, MaxRunCands) }

\* get_artist_title not called: [called, found, artist, song]
NotCalled == [called |-> FALSE, found |-> FALSE, artist |-> <<>>, song |-> <<>>]

\* ------------------------------------------------------ state of one run
VARIABLES
    pc,                             \* position in run_migration / search_track
    fetched_yt_songs,               \* list returned by get_playlist_items
    spotify_playlist_id,            \* "" until create_or_get_playlist answers
    i,                              \* index of the item being processed (1-based)
    processed_songs_cache,          \* lookup_key -> SpotifyTrack or NoTrack
    successful_migrations,
    not_found_or_error_migrations,
    spotify_track_uris_to_add,
    fuzzy_match_threshold,          \* sp_client.fuzzy_match_threshold
    results,                        \* search_track: items of local `results`
    tracks,                         \* search_track: local `tracks`
    search_result_tuple,            \* what search_track returned
    events,                         \* ghost: remote searches and sleeps, in order
    add_calls,                      \* ghost: batches sent by add_tracks_to_playlist
    unique_uris_to_add,             \* the list handed to add_tracks_to_playlist
    add_success,                    \* its return value: "" until it returns
    startup,                        \* ghost: outcome of validation and client set-up
    remote_calls,                   \* ghost: playlist-level remote calls, in order
    yt_pages,                       \* get_playlist_items: responses the service has still to give
    yt_seen,                        \* ghost: raw playlist entries received, in order
    yt_requests,                    \* ghost: each playlistItems().list request and its outcome
    title,                          \* clean_youtube_title: its argument
    cleaned_title,                  \* what clean_youtube_title returned
    channel_title,                  \* parse_artist_song_from_title: its second argument
    delegate_result,                \* ghost: the call of get_artist_title and its answer
    parsed,                         \* what parse_artist_song_from_title returned
    sp_playlists,                   \* the current user's playlists held by the service
    sp_calls,                       \* ghost: calls made by create_or_get_playlist
    files                           \* output files written so far

vars == <<pc, fetched_yt_songs, spotify_playlist_id, i, processed_songs_cache,
          successful_migrations, not_found_or_error_migrations,
          spotify_track_uris_to_add, fuzzy_match_threshold, results, tracks,
          search_result_tuple, events,
          add_calls, unique_uris_to_add, add_success, startup, remote_calls,
          yt_pages, yt_seen, yt_requests, title, cleaned_title,
          channel_title, delegate_result, parsed, sp_playlists, sp_calls,
          files>>

addVars == <<add_calls, unique_uris_to_add, add_success>>

startVars == <<startup, remote_calls>>

fetchVars == <<yt_pages, yt_seen, yt_requests>>

cleanVars == <<title, cleaned_title>>

parseVars == <<channel_title, delegate_result, parsed>>

playlistVars == <<sp_playlists, sp_calls>>

\* state of the functions explored on their own
auxVars == <<fetchVars, cleanVars, parseVars, playlistVars>>

loopVars == <<i, processed_songs_cache, successful_migrations,
              not_found_or_error_migrations, spotify_track_uris_to_add,
              fuzzy_match_threshold, results, tracks, search_result_tuple,
              events>>

Init ==
    /\ pc = "start"
    /\ fetched_yt_songs = <<>>
    /\ spotify_playlist_id = ""
    /\ i = 1
    /\ processed_songs_cache = <<>>
    /\ successful_migrations = <<>>
    /\ not_found_or_error_migrations = <<>>
    /\ spotify_track_uris_to_add = <<>>
    /\ fuzzy_match_threshold = FUZZY_MATCH_THRESHOLD
    /\ results = <<>>
    /\ tracks = <<>>
    /\ search_result_tuple = NoMatch
    /\ events = <<>>
    /\ add_calls = <<>>
    /\ unique_uris_to_add = <<>>
    /\ add_success = ""
    /\ startup = [config |-> "", clients |-> ""]
    /\ remote_calls = <<>>
    /\ yt_pages = <<>>
    /\ yt_seen = <<>>
    /\ yt_requests = <<>>
    /\ title = <<>>
    /\ cleaned_title = <<>>
    /\ channel_title = NoneStr
    /\ delegate_result = NotCalled
    /\ parsed = <<NoneStr, NoneStr>>
    /\ sp_playlists = <<>>
    /\ sp_calls = <<>>
    /\ files = {}

\* --------------------------------------------------- run_migration: start
\* where run_migration goes after config.validate_configuration()
ConfigNext(ok) == IF ok THEN "input" ELSE "exit"

\* config.validate_configuration()
ValidateConfiguration ==
    /\ pc = "start"
    /\ \E ok \in BOOLEAN :
          /\ startup' = [startup EXCEPT !.config = IF ok THEN "valid" ELSE "invalid"]
          /\ pc' = ConfigNext(ok)
    /\ UNCHANGED <<fetched_yt_songs, spotify_playlist_id, addVars, remote_calls,
                   files>>
    /\ UNCHANGED loopVars
    /\ UNCHANGED auxVars

\* the two input() prompts
ReadInput ==
    /\ pc = "input"
    /\ \E outcome \in {"ok", "empty_id", "interrupt"} :
          pc' = IF outcome = "ok" THEN "clients" ELSE "exit"
    /\ UNCHANGED <<fetched_yt_songs, spotify_playlist_id, addVars, startVars,
                   files>>
    /\ UNCHANGED loopVars
    /\ UNCHANGED auxVars

\* mutant of ClientsNext: a ConnectionError is only logged
ClientsNext_ConnectionErrorIgnored(outcome) ==
    IF outcome \in {"ok", "ConnectionError"} THEN "fetch" ELSE "exit"

\* the three except clauses around the client constructors all return
ClientsNext(outcome) == IF outcome = "ok" THEN "fetch" ELSE "exit"

\* YouTubeClient(...) and SpotifyClient(...)
InitClients ==
    /\ pc = "clients"
    /\ \E outcome \in {"ok", "ValueError", "ConnectionError", "Exception"} :
          /\ startup' = [startup EXCEPT !.clients = outcome]
          /\ pc' = ClientsNext(outcome)
    /\ UNCHANGED <<fetched_yt_songs, spotify_playlist_id, addVars, remote_calls,
                   files>>
    /\ UNCHANGED loopVars
    /\ UNCHANGED auxVars

\* yt_client.get_playlist_items(...) and the fetched-songs CSV; `files` holds
\* the output files whose writer was called
FetchPlaylist ==
    /\ pc = "fetch"
    /\ remote_calls' = Append(remote_calls, "get_playlist_items")
    /\ \E songs \in Playlists :
          /\ fetched_yt_songs' = songs
          /\ IF songs = <<>>
             THEN pc' = "exit" /\ files' = files
             ELSE pc' = "playlist" /\ files' = files \cup {"fetched"}
    /\ UNCHANGED <<spotify_playlist_id, addVars, startup>>
    /\ UNCHANGED loopVars
    /\ UNCHANGED auxVars

\* mutant of PlaylistNext: the run goes on without a playlist id
PlaylistNext_Continues(id) == "loop"

\* `if not spotify_playlist_id: ... return`
PlaylistNext(id) == IF id = "" THEN "exit" ELSE "loop"

\* sp_client.create_or_get_playlist(...)
CreateOrGetPlaylist ==
    /\ pc = "playlist"
    /\ remote_calls' = Append(remote_calls, "create_or_get_playlist")
    /\ \E id \in {"", "pl"} :
          /\ spotify_playlist_id' = id
          /\ pc' = PlaylistNext(id)
    /\ UNCHANGED <<fetched_yt_songs, addVars, startup, files>>
    /\ UNCHANGED loopVars
    /\ UNCHANGED auxVars

\* ---------------------------------------------------- run_migration: loop
InLoop == pc = "loop" /\ i <= Len(fetched_yt_songs)

\* the SKIPPED branch
SkipItem ==
    /\ InLoop
    /\ IsSkipped(fetched_yt_songs[i])
    /\ not_found_or_error_migrations' =
          Append(not_found_or_error_migrations,
                 MigrationResult(i, NoTrack, NoScore, "SKIPPED"))
    /\ i' = i + 1
    /\ UNCHANGED <<pc, fetched_yt_songs, spotify_playlist_id,
                   processed_songs_cache, successful_migrations,
                   spotify_track_uris_to_add, fuzzy_match_threshold, results,
                   tracks, search_result_tuple, events, addVars, startVars, files>>
    /\ UNCHANGED auxVars

\* the cache-hit branch, up to the append to one of the two result lists
CacheHit ==
    /\ InLoop
    /\ ~IsSkipped(fetched_yt_songs[i])
    /\ LET lookup_key == LookupKey(fetched_yt_songs[i]) IN
       /\ InCache(processed_songs_cache, lookup_key)
       /\ LET spotify_track_found == processed_songs_cache[lookup_key]
              migration_status == HitStatus(spotify_track_found)
              migration == MigrationResult(i, spotify_track_found, NoScore,
                                           migration_status)
          IN /\ spotify_track_uris_to_add' =
                   IF spotify_track_found # NoTrack
                   THEN Append(spotify_track_uris_to_add, spotify_track_found.uri)
                   ELSE spotify_track_uris_to_add
             /\ IF IsSuccessStatus(migration_status)
                THEN /\ successful_migrations' =
                           Append(successful_migrations, migration)
                     /\ UNCHANGED not_found_or_error_migrations
                ELSE /\ not_found_or_error_migrations' =
                           Append(not_found_or_error_migrations, migration)
                     /\ UNCHANGED successful_migrations
    /\ i' = i + 1
    /\ UNCHANGED <<pc, fetched_yt_songs, spotify_playlist_id,
                   processed_songs_cache, fuzzy_match_threshold, results,
                   tracks, search_result_tuple, events, addVars, startVars, files>>
    /\ UNCHANGED auxVars

\* the cache-miss branch calls sp_client.search_track(yt_song)
CacheMiss ==
    /\ InLoop
    /\ ~IsSkipped(fetched_yt_songs[i])
    /\ ~InCache(processed_songs_cache, LookupKey(fetched_yt_songs[i]))
    /\ events' = Append(events, CallEvent(i))
    /\ IF ~Truthy(fetched_yt_songs[i].parsed_song_name)
       THEN pc' = "returned" /\ search_result_tuple' = NoMatch
       ELSE pc' = "targeted" /\ UNCHANGED search_result_tuple
    /\ UNCHANGED <<fetched_yt_songs, spotify_playlist_id, i,
                   processed_songs_cache, successful_migrations,
                   not_found_or_error_migrations, spotify_track_uris_to_add,
                   fuzzy_match_threshold, results, tracks, addVars, startVars, files>>
    /\ UNCHANGED auxVars

\* search_track: attempt 1, the targeted query
SearchTargeted ==
    /\ pc = "targeted"
    /\ \E resp \in RunResponses :
          LET after == AfterTargeted(resp)
              q == QueryTargeted(fetched_yt_songs[i])
              logged == Append(events, SearchEvent(i, "targeted", q, resp))
          IN /\ events' = logged
             /\ results' = IF resp.raises THEN results ELSE resp.items
             /\ tracks' = after.tracks
             /\ IF \/ after.next = "return_none"
                   \/ after.next = "broader"
                      /\ QuerySimple(fetched_yt_songs[i]) = <<>>
                THEN pc' = "returned" /\ search_result_tuple' = NoMatch
                ELSE pc' = after.next /\ UNCHANGED search_result_tuple
    /\ UNCHANGED <<fetched_yt_songs, spotify_playlist_id, i,
                   processed_songs_cache, successful_migrations,
                   not_found_or_error_migrations, spotify_track_uris_to_add,
                   fuzzy_match_threshold, addVars, startVars, files>>
    /\ UNCHANGED auxVars

\* search_track: attempt 2, time.sleep(2) then the broader query
SearchBroader ==
    /\ pc = "broader"
    /\ \E resp \in RunResponses :
          LET after == AfterBroader(resp)
              q == QuerySimple(fetched_yt_songs[i])
          IN /\ events' = events \o <<SleepEvent(i),
                                      SearchEvent(i, "broader", q, resp)>>
             /\ results' = IF resp.raises THEN results ELSE resp.items
             /\ tracks' = after.tracks
             /\ IF after.next = "return_none"
                THEN pc' = "returned" /\ search_result_tuple' = NoMatch
                ELSE IF after.next = "raise"
                THEN pc' = "crashed" /\ UNCHANGED search_result_tuple
                ELSE pc' = after.next /\ UNCHANGED search_result_tuple
    /\ UNCHANGED <<fetched_yt_songs, spotify_playlist_id, i,
                   processed_songs_cache, successful_migrations,
                   not_found_or_error_migrations, spotify_track_uris_to_add,
                   fuzzy_match_threshold, addVars, startVars, files>>
    /\ UNCHANGED auxVars

\* search_track: score the results, sleep, return.  An empty target_str
\* needs a song name without any non-blank character, which the guard at the
\* top of search_track and the stripped YouTubeSong fields exclude, so the
\* clean_youtube_title fallback for it is folded into the `return None` arm.
ScoreTracks ==
    /\ pc = "score"
    /\ IF TargetStr(fetched_yt_songs[i]) = <<>>
       THEN search_result_tuple' = NoMatch /\ UNCHANGED events
       ELSE /\ search_result_tuple' = SelectBest(tracks, fuzzy_match_threshold)
            /\ events' = Append(events, SleepEvent(i))
    /\ pc' = "returned"
    /\ UNCHANGED <<results, tracks>>
    /\ UNCHANGED <<fetched_yt_songs, spotify_playlist_id, i,
                   processed_songs_cache, successful_migrations,
                   not_found_or_error_migrations, spotify_track_uris_to_add,
                   fuzzy_match_threshold, addVars, startVars, files>>
    /\ UNCHANGED auxVars

\* the rest of the cache-miss branch: store the verdict, build the result
StoreResult ==
    /\ pc = "returned"
    /\ LET lookup_key == LookupKey(fetched_yt_songs[i])
           r == search_result_tuple
           migration_status == MissStatus(r)
           migration == MigrationResult(i, r.track, r.score, migration_status)
       IN /\ processed_songs_cache' =
                CacheAfterMiss(processed_songs_cache, lookup_key, r)
          /\ spotify_track_uris_to_add' =
                IF r.found THEN Append(spotify_track_uris_to_add, r.track.uri)
                ELSE spotify_track_uris_to_add
          /\ IF IsSuccessStatus(migration_status)
             THEN /\ successful_migrations' =
                        Append(successful_migrations, migration)
                  /\ UNCHANGED not_found_or_error_migrations
             ELSE /\ not_found_or_error_migrations' =
                        Append(not_found_or_error_migrations, migration)
                  /\ UNCHANGED successful_migrations
    /\ i' = i + 1
    /\ pc' = "loop"
    /\ search_result_tuple' = NoMatch
    /\ tracks' = <<>>
    /\ results' = <<>>
    /\ UNCHANGED <<fetched_yt_songs, spotify_playlist_id, fuzzy_match_threshold,
                   events, addVars, startVars, files>>
    /\ UNCHANGED auxVars

\* ------------------------------------------- run_migration: after the loop
SPOTIFY_MAX_TRACKS_PER_ADD_REQUEST == 100

\* mutant of NumBatches: the quotient is rounded down
NumBatches_Floor(n, limit) == n \div limit

\* math.ceil(len(track_uris) / limit)
NumBatches(n, limit) == (n + limit - 1) \div limit

Min(a, b) == IF a < b THEN a ELSE b

\* track_uris[start_index:end_index] of batch b (0-based)
Batch(track_uris, b, limit) ==
    SubSeq(track_uris, b * limit + 1, Min((b + 1) * limit, Len(track_uris)))

\* list(set(...)): every order of the distinct elements is possible
Range(f) == { f[k] : k \in DOMAIN f }
Orderings(S) ==
    { f \in [1..Cardinality(S) -> S] : \A x \in S : \E k \in DOMAIN f : f[k] = x }

\* mutant of UniqueUris: the list is passed on as it is
UniqueUris_NoDedup(uris) == {uris}

\* list(set(spotify_track_uris_to_add)): the distinct elements, in any of
\* the orders a set iteration can produce
UniqueUris(uris) == Orderings(Range(uris))

\* mutant of AllSuccessful: only the last batch decides
AllSuccessful_LastOnly(outcomes) ==
    outcomes = <<>> \/ outcomes[Len(outcomes)]

\* all_successful at `return all_successful`: set to False by each except
\* clause, never set back
AllSuccessful(outcomes) == \A k \in DOMAIN outcomes : outcomes[k]

\* add_tracks_to_playlist: the batches sent, each with its outcome, and the
\* sleep that follows a successful batch when there are several
RECURSIVE AddLoop(_, _, _, _)
AddLoop(track_uris, outcomes, b, limit) ==
    LET num_batches == NumBatches(Len(track_uris), limit) IN
    IF b >= num_batches THEN <<>>
    ELSE <<[ev |-> "add", items |-> Batch(track_uris, b, limit),
            ok |-> outcomes[b + 1]]>>
         \o (IF outcomes[b + 1] /\ num_batches > 1
             THEN <<[ev |-> "sleep", items |-> <<>>, ok |-> TRUE]>> ELSE <<>>)
         \o AddLoop(track_uris, outcomes, b + 1, limit)

\* `if spotify_track_uris_to_add:` unique_uris_to_add = list(set(...)), then
\* the call of add_tracks_to_playlist; with an empty list nothing is called
AddTracks ==
    /\ pc = "loop"
    /\ i > Len(fetched_yt_songs)
    /\ IF spotify_track_uris_to_add = <<>>
       THEN /\ pc' = "write"
            /\ UNCHANGED unique_uris_to_add
       ELSE /\ pc' = "add"
            /\ unique_uris_to_add' \in UniqueUris(spotify_track_uris_to_add)
    /\ UNCHANGED <<fetched_yt_songs, spotify_playlist_id, add_calls,
                   add_success, startVars, files>>
    /\ UNCHANGED loopVars
    /\ UNCHANGED auxVars

\* SpotifyClient.add_tracks_to_playlist(playlist_id, unique_uris_to_add):
\* each playlist_add_items call succeeds or raises, the except clauses
\* swallow the error
AddTracksToPlaylist ==
    /\ pc = "add"
    /\ IF unique_uris_to_add = <<>>
       THEN /\ add_calls' = <<>>
            /\ add_success' = "True"
       ELSE \E outcomes \in [1..NumBatches(Len(unique_uris_to_add),
                                           SPOTIFY_MAX_TRACKS_PER_ADD_REQUEST)
                             -> BOOLEAN] :
               /\ add_calls' = AddLoop(unique_uris_to_add, outcomes, 0,
                                       SPOTIFY_MAX_TRACKS_PER_ADD_REQUEST)
               /\ add_success' = IF AllSuccessful(outcomes)
                                 THEN "True" ELSE "False"
    /\ pc' = "write"
    /\ UNCHANGED <<fetched_yt_songs, spotify_playlist_id, unique_uris_to_add,
                   startVars, files>>
    /\ UNCHANGED loopVars
    /\ UNCHANGED auxVars

\* mutant of ResultFiles: only the success file is written
ResultFiles_SuccessOnly == {"success"}

\* the two write_migration_results_to_csv_updated calls
ResultFiles == {"success", "not_found"}

\* the end of run_migration: both result files are handed to the writer,
\* which catches its own I/O errors
WriteResults ==
    /\ pc = "write"
    /\ files' = files \cup ResultFiles
    /\ pc' = "done"
    /\ UNCHANGED <<fetched_yt_songs, spotify_playlist_id, addVars, startVars>>
    /\ UNCHANGED loopVars
    /\ UNCHANGED auxVars

Next ==
    \/ ValidateConfiguration
    \/ ReadInput
    \/ InitClients
    \/ FetchPlaylist
    \/ CreateOrGetPlaylist
    \/ SkipItem
    \/ CacheHit
    \/ CacheMiss
    \/ SearchTargeted
    \/ SearchBroader
    \/ ScoreTracks
    \/ StoreResult
    \/ AddTracks
    \/ AddTracksToPlaylist
    \/ WriteResults

Spec == Init /\ [][Next]_vars

\* ------------------------------------------------------ the scorer alone
\* search_track at the point where a search has returned `tracks`, for every
\* candidate list and threshold of the bounded input sets
InitScorer ==
    /\ pc = "score"
    /\ fetched_yt_songs \in { <<y>> : y \in { x \in SongPool : ~IsSkipped(x) } }
    /\ spotify_playlist_id = "pl"
    /\ i = 1
    /\ processed_songs_cache = <<>>
    /\ successful_migrations = <<>>
    /\ not_found_or_error_migrations = <<>>
    /\ spotify_track_uris_to_add = <<>>
    /\ fuzzy_match_threshold \in Thresholds
    /\ tracks \in SeqsUpTo(ScorerItemPool, MaxCands) \ {<<>>}
    /\ results = tracks
    /\ search_result_tuple = NoMatch
    /\ events = <<>>
    /\ add_calls = <<>>
    /\ unique_uris_to_add = <<>>
    /\ add_success = ""
    /\ startup = [config |-> "valid", clients |-> "ok"]
    /\ remote_calls = <<"get_playlist_items", "create_or_get_playlist">>
    /\ yt_pages = <<>>
    /\ yt_seen = <<>>
    /\ yt_requests = <<>>
    /\ title = <<>>
    /\ cleaned_title = <<>>
    /\ channel_title = NoneStr
    /\ delegate_result = NotCalled
    /\ parsed = <<NoneStr, NoneStr>>
    /\ sp_playlists = <<>>
    /\ sp_calls = <<>>
    /\ files = {"fetched"}

NextScorer == ScoreTracks

SpecScorer == InitScorer /\ [][NextScorer]_vars

\* ------------------------------------------- add_tracks_to_playlist alone
\* the longest list handed to add_tracks_to_playlist: three batches
MaxUris == 205

\* a list of n distinct track URIs
UriList(n) == [k \in 1..n |-> ToString(k)]

\* add_tracks_to_playlist about to be called with a list of any length up
\* to MaxUris, the empty list included
InitAdd ==
    /\ pc = "add"
    /\ fetched_yt_songs = <<>>
    /\ spotify_playlist_id = "pl"
    /\ i = 1
    /\ processed_songs_cache = <<>>
    /\ successful_migrations = <<>>
    /\ not_found_or_error_migrations = <<>>
    /\ spotify_track_uris_to_add = <<>>
    /\ fuzzy_match_threshold = FUZZY_MATCH_THRESHOLD
    /\ results = <<>>
    /\ tracks = <<>>
    /\ search_result_tuple = NoMatch
    /\ events = <<>>
    /\ add_calls = <<>>
    /\ unique_uris_to_add \in { UriList(n) : n \in 0..MaxUris }
    /\ add_success = ""
    /\ startup = [config |-> "valid", clients |-> "ok"]
    /\ remote_calls = <<"get_playlist_items", "create_or_get_playlist">>
    /\ yt_pages = <<>>
    /\ yt_seen = <<>>
    /\ yt_requests = <<>>
    /\ title = <<>>
    /\ cleaned_title = <<>>
    /\ channel_title = NoneStr
    /\ delegate_result = NotCalled
    /\ parsed = <<NoneStr, NoneStr>>
    /\ sp_playlists = <<>>
    /\ sp_calls = <<>>
    /\ files = {"fetched"}

NextAdd == AddTracksToPlaylist

SpecAdd == InitAdd /\ [][NextAdd]_vars

\* ------------------------------------ YouTubeClient.get_playlist_items
\* most raw playlist entries and most pages explored
MaxEntries == 3
MaxPages == 2

\* the two titles YouTube gives to unavailable videos, in lower case
PRIVATE_VIDEO == <<"p", "r", "i", "v", "a", "t", "e", " ", "v", "i", "d", "e", "o">>
DELETED_VIDEO == <<"d", "e", "l", "e", "t", "e", "d", " ", "v", "i", "d", "e", "o">>

\* mutant of SkipsEntry: the titles are compared as they are
SkipsEntry_CaseSensitive(item) ==
    \/ item.video_id = "" \/ ~Truthy(item.title)
    \/ item.title = PRIVATE_VIDEO
    \/ item.title = DELETED_VIDEO

\* the two `continue` tests of the item loop; a missing key is "" for the
\* video id and NoneStr for the title
SkipsEntry(item) ==
    \/ item.video_id = "" \/ ~Truthy(item.title)
    \/ Lower(item.title) = PRIVATE_VIDEO
    \/ Lower(item.title) = DELETED_VIDEO

\* models.YouTubeSong(...) of an entry; item.parsed is the pair that
\* clean_youtube_title and parse_artist_song_from_title give for its title
SongOf(item) == YouTubeSong(item.parsed[1], item.parsed[2])

\* the songs appended to all_songs for the items of one page
RECURSIVE PageSongs(_)
PageSongs(items) ==
    IF items = <<>> THEN <<>>
    ELSE (IF SkipsEntry(Head(items)) THEN <<>> ELSE <<SongOf(Head(items))>>)
         \o PageSongs(Tail(items))

\* mutant of OnFetchError: the songs collected so far are returned
OnFetchError_Partial(all_songs) == all_songs

\* both except clauses `return []`
OnFetchError(all_songs) == <<>>

\* the `while True` loop: one request per iteration with the token of the
\* previous response; a response is [raises, items, nextPageToken], with
\* raises "" when request.execute() and the item loop went through
RECURSIVE FetchLoop(_, _, _, _, _)
FetchLoop(pages, all_songs, seen, requests, next_page_token) ==
    LET response == Head(pages)
        asked == Append(requests,
                        [pageToken |-> next_page_token,
                         outcome |-> IF response.raises # ""
                                     THEN response.raises ELSE "ok",
                         nextPageToken |-> response.nextPageToken])
    IN IF response.raises # ""
       THEN [songs |-> OnFetchError(all_songs), seen |-> seen,
             requests |-> asked, rest |-> Tail(pages)]
       ELSE LET songs == all_songs \o PageSongs(response.items)
                got == seen \o response.items
            IN IF response.nextPageToken = ""
               THEN [songs |-> songs, seen |-> got, requests |-> asked,
                     rest |-> Tail(pages)]
               ELSE FetchLoop(Tail(pages), songs, got, asked,
                              response.nextPageToken)

\* yt_client.get_playlist_items(...) page by page, then the empty test and
\* the fetched-songs CSV of run_migration
FetchPlaylistItems ==
    /\ pc = "fetch_pages"
    /\ remote_calls' = Append(remote_calls, "get_playlist_items")
    /\ LET r == FetchLoop(yt_pages, <<>>, <<>>, <<>>, "")
       IN /\ fetched_yt_songs' = r.songs
          /\ yt_seen' = r.seen
          /\ yt_requests' = r.requests
          /\ yt_pages' = r.rest
          /\ IF r.songs = <<>>
             THEN pc' = "exit" /\ files' = files
             ELSE pc' = "playlist" /\ files' = files \cup {"fetched"}
    /\ UNCHANGED <<spotify_playlist_id, addVars, startup>>
    /\ UNCHANGED <<cleanVars, parseVars, playlistVars>>
    /\ UNCHANGED loopVars

\* raw playlist entries: two available videos (the second with a title that
\* cleans to nothing), and one entry for each reason to skip
Entry(vid, original_title, pair) ==
    [video_id |-> vid, title |-> original_title, parsed |-> pair]
EntryPool ==
    { Entry("v1", <<"t">>, << <<"a">>, <<"s">> >>),
      Entry("v2", <<"(", ")">>, <<NoneStr, NoneStr>>),
      Entry("v3", <<"P", "r", "i", "v", "a", "t", "e", " ", "v", "i", "d", "e", "o">>, << <<"a">>, <<"s">> >>),
      Entry("v4", <<"D", "E", "L", "E", "T", "E", "D", " ", "V", "I", "D", "E", "O">>, << <<"a">>, <<"s">> >>),
      Entry("", <<"t">>, << <<"a">>, <<"s">> >>),
      Entry("v5", NoneStr, << <<"a">>, <<"s">> >>) }

OkPage(items, token) == [raises |-> "", items |-> items, nextPageToken |-> token]
ErrPage(kind) == [raises |-> kind, items |-> <<>>, nextPageToken |-> ""]

\* the token the service gives with the n-th page when more pages follow
PageToken(n) == "page_token_" \o ToString(n + 1)

\* every way to deliver the entries `es` in at most n more pages, page k
\* being the first of them
RECURSIVE PagesOf(_, _, _)
PagesOf(es, n, k) ==
    {<<OkPage(es, "")>>}
    \cup (IF n <= 1 THEN {}
          ELSE UNION { { <<OkPage(SubSeq(es, 1, c), PageToken(k))>> \o rest :
                           rest \in PagesOf(SubSeq(es, c + 1, Len(es)), n - 1, k + 1) }
                       : c \in 0..Len(es) })

\* the same deliveries with the last request failing
FailingPages(ps, kind) == SubSeq(ps, 1, Len(ps) - 1) \o <<ErrPage(kind)>>

\* what the service may answer when the playlist holds the entries `es`
FetchInputs(es) ==
    LET ok == PagesOf(es, MaxPages, 1)
    IN ok \cup { FailingPages(ps, kind) : ps \in ok, kind \in {"HttpError", "Exception"} }

\* run_migration at the fetch, the service holding any of the inputs
InitFetch ==
    /\ pc = "fetch_pages"
    /\ fetched_yt_songs = <<>>
    /\ spotify_playlist_id = ""
    /\ i = 1
    /\ processed_songs_cache = <<>>
    /\ successful_migrations = <<>>
    /\ not_found_or_error_migrations = <<>>
    /\ spotify_track_uris_to_add = <<>>
    /\ fuzzy_match_threshold = FUZZY_MATCH_THRESHOLD
    /\ results = <<>>
    /\ tracks = <<>>
    /\ search_result_tuple = NoMatch
    /\ events = <<>>
    /\ add_calls = <<>>
    /\ unique_uris_to_add = <<>>
    /\ add_success = ""
    /\ startup = [config |-> "valid", clients |-> "ok"]
    /\ remote_calls = <<>>
    /\ \E es \in SeqsUpTo(EntryPool, MaxEntries) : yt_pages \in FetchInputs(es)
    /\ yt_seen = <<>>
    /\ yt_requests = <<>>
    /\ title = <<>>
    /\ cleaned_title = <<>>
    /\ channel_title = NoneStr
    /\ delegate_result = NotCalled
    /\ parsed = <<NoneStr, NoneStr>>
    /\ sp_playlists = <<>>
    /\ sp_calls = <<>>
    /\ files = {}

NextFetch ==
    \/ FetchPlaylistItems
    \/ CreateOrGetPlaylist
    \/ SkipItem
    \/ CacheHit
    \/ CacheMiss
    \/ SearchTargeted
    \/ SearchBroader
    \/ ScoreTracks
    \/ StoreResult
    \/ AddTracks
    \/ AddTracksToPlaylist
    \/ WriteResults

SpecFetch == InitFetch /\ [][NextFetch]_vars

\* ----------------------------------------------- utils.clean_youtube_title
\* most chunks a title explored is made of
MaxChunks == 3

Digits == {"0", "1", "2", "3", "4", "5", "6", "7", "8", "9"}

\* \w of the regular expressions
IsWordChar(c) ==
    c \in DOMAIN LowerMap \/ c \in Range(LowerCase) \/ c \in Digits \/ c = "_"

\* length of the run of whitespace / of word characters / of characters
\* other than ")" that starts at position k
RECURSIVE SpaceRun(_, _)
SpaceRun(s, k) ==
    IF k <= Len(s) /\ IsSpace(s[k]) THEN 1 + SpaceRun(s, k + 1) ELSE 0
RECURSIVE WordRun(_, _)
WordRun(s, k) ==
    IF k <= Len(s) /\ IsWordChar(s[k]) THEN 1 + WordRun(s, k + 1) ELSE 0
RECURSIVE NonParenRun(_, _)
NonParenRun(s, k) ==
    IF k <= Len(s) /\ s[k] # ")" THEN 1 + NonParenRun(s, k + 1) ELSE 0

\* the lower-case text `body` stands at position k in any letter case
\* (re.IGNORECASE)
HasAt(s, k, body) ==
    /\ k >= 1
    /\ k + Len(body) - 1 <= Len(s)
    /\ Lower(SubSeq(s, k, k + Len(body) - 1)) = body

\* \bbody\b at position k
WordAt(s, k, body) ==
    /\ HasAt(s, k, body)
    /\ (k = 1 \/ ~IsWordChar(s[k - 1]))
    /\ (k + Len(body) > Len(s) \/ ~IsWordChar(s[k + Len(body)]))

SetMin(S) == CHOOSE x \in S : \A y \in S : x <= y
SetMax(S) == CHOOSE x \in S : \A y \in S : x >= y

\* the four shapes of the entries of patterns_to_remove
\*   Span     open .* \bbody\b .* close
\*   Tag      open \s* body \s* close
\*   Credit   open body [^)]+ close
\*   Hashtag  \s* # \w+
Span(open, close, body) ==
    [kind |-> "span", open |-> open, close |-> close, body |-> body]
Tag(open, close, body) ==
    [kind |-> "tag", open |-> open, close |-> close, body |-> body]
Credit(open, close, body) ==
    [kind |-> "credit", open |-> open, close |-> close, body |-> body]
Hashtag == [kind |-> "hashtag", open |-> "", close |-> "", body |-> <<>>]

\* patterns_to_remove, in the order of the source
patterns_to_remove ==
    << Span("(", ")", <<"s", "o", "u", "n", "d", "t", "r", "a", "c", "k">>),
       Span("[", "]", <<"s", "o", "u", "n", "d", "t", "r", "a", "c", "k">>),
       Span("(", ")", <<"o", "f", "f", "i", "c", "i", "a", "l", " ", "m", "u", "s", "i", "c", " ", "v", "i", "d", "e", "o">>),
       Span("[", "]", <<"o", "f", "f", "i", "c", "i", "a", "l", " ", "m", "u", "s", "i", "c", " ", "v", "i", "d", "e", "o">>),
       Span("(", ")", <<"o", "f", "f", "i", "c", "i", "a", "l", " ", "v", "i", "d", "e", "o">>),
       Span("[", "]", <<"o", "f", "f", "i", "c", "i", "a", "l", " ", "v", "i", "d", "e", "o">>),
       Span("(", ")", <<"o", "f", "f", "i", "c", "i", "a", "l", " ", "l", "y", "r", "i", "c", " ", "v", "i", "d", "e", "o">>),
       Span("[", "]", <<"o", "f", "f", "i", "c", "i", "a", "l", " ", "l", "y", "r", "i", "c", " ", "v", "i", "d", "e", "o">>),
       Span("(", ")", <<"l", "y", "r", "i", "c", " ", "v", "i", "d", "e", "o">>),
       Span("[", "]", <<"l", "y", "r", "i", "c", " ", "v", "i", "d", "e", "o">>),
       Span("(", ")", <<"l", "y", "r", "i", "c", "s">>),
       Span("[", "]", <<"l", "y", "r", "i", "c", "s">>),
       Span("(", ")", <<"o", "f", "f", "i", "c", "i", "a", "l", " ", "a", "u", "d", "i", "o">>),
       Span("[", "]", <<"o", "f", "f", "i", "c", "i", "a", "l", " ", "a", "u", "d", "i", "o">>),
       Span("(", ")", <<"a", "u", "d", "i", "o">>),
       Span("[", "]", <<"a", "u", "d", "i", "o">>),
       Span("(", ")", <<"v", "i", "s", "u", "a", "l", "i", "z", "e", "r">>),
       Span("[", "]", <<"v", "i", "s", "u", "a", "l", "i", "z", "e", "r">>),
       Span("(", ")", <<"f", "u", "l", "l", " ", "a", "l", "b", "u", "m">>),
       Span("[", "]", <<"f", "u", "l", "l", " ", "a", "l", "b", "u", "m">>),
       Span("(", ")", <<"l", "i", "v", "e">>),
       Span("[", "]", <<"l", "i", "v", "e">>),
       Tag("(", ")", <<"h", "d">>),
       Tag("[", "]", <<"h", "d">>),
       Tag("(", ")", <<"h", "q">>),
       Tag("[", "]", <<"h", "q">>),
       Tag("(", ")", <<"4", "k">>),
       Tag("[", "]", <<"4", "k">>),
       Credit("(", ")", <<"f", "e", "a", "t", ".">>),
       Credit("[", "]", <<"f", "e", "a", "t", ".">>),
       Credit("(", ")", <<"f", "t", ".">>),
       Credit("[", "]", <<"f", "t", ".">>),
       Credit("(", ")", <<"p", "r", "o", "d", ".">>),
       Credit("[", "]", <<"p", "r", "o", "d", ".">>),
       Hashtag >>

\* re.sub of a Span pattern: the leftmost opening character that has the
\* marker and then a closing character somewhere after it starts the match;
\* both `.*` are greedy, so the match runs to the last closing character of
\* the title, and nothing after it can match again
SpanSub(pat, s) ==
    LET closes == { e \in DOMAIN s : s[e] = pat.close }
        starts == { a \in DOMAIN s :
                      /\ s[a] = pat.open
                      /\ \E p \in (a + 1)..Len(s) :
                            /\ WordAt(s, p, pat.body)
                            /\ \E e \in closes : e >= p + Len(pat.body) }
    IN IF starts = {} THEN s
       ELSE SubSeq(s, 1, SetMin(starts) - 1)
            \o SubSeq(s, SetMax(closes) + 1, Len(s))

\* length of the match of a Tag pattern that starts at position k, or 0
TagLen(pat, s, k) ==
    LET a == k + 1 + SpaceRun(s, k + 1)
        b == a + Len(pat.body) + SpaceRun(s, a + Len(pat.body))
    IN IF s[k] = pat.open /\ HasAt(s, a, pat.body)
          /\ b <= Len(s) /\ s[b] = pat.close
       THEN b - k + 1 ELSE 0

\* length of the match of a Credit pattern at k, or 0: [^)]+ takes the
\* whole run of characters other than ")" and gives back until the closing
\* character follows
CreditLen(pat, s, k) ==
    LET st == k + 1 + Len(pat.body)
        run == NonParenRun(s, st)
        ends == { q \in (st + 1)..(st + run) : q <= Len(s) /\ s[q] = pat.close }
    IN IF s[k] = pat.open /\ HasAt(s, k + 1, pat.body) /\ ends # {}
       THEN SetMax(ends) - k + 1 ELSE 0

\* length of the match of the Hashtag pattern at k, or 0
HashtagLen(s, k) ==
    LET j == k + SpaceRun(s, k)
    IN IF j <= Len(s) /\ s[j] = "#" /\ WordRun(s, j + 1) >= 1
       THEN j + 1 + WordRun(s, j + 1) - k ELSE 0

\* length of the match of `open \s* close` at k, or 0
EmptyLen(pat, s, k) ==
    LET b == k + 1 + SpaceRun(s, k + 1)
    IN IF s[k] = pat.open /\ b <= Len(s) /\ s[b] = pat.close
       THEN b - k + 1 ELSE 0

MatchLen(pat, s, k) ==
    IF pat.kind = "tag" THEN TagLen(pat, s, k)
    ELSE IF pat.kind = "credit" THEN CreditLen(pat, s, k)
    ELSE IF pat.kind = "hashtag" THEN HashtagLen(s, k)
    ELSE EmptyLen(pat, s, k)

\* re.sub(pattern, "", s) scanning from position k: matches are taken
\* leftmost first and do not overlap
RECURSIVE ScanSub(_, _, _)
ScanSub(pat, s, k) ==
    IF k > Len(s) THEN <<>>
    ELSE LET n == MatchLen(pat, s, k)
         IN IF n > 0 THEN ScanSub(pat, s, k + n)
            ELSE <<s[k]>> \o ScanSub(pat, s, k + 1)

\* re.sub(pattern, "", cleaned_title, flags=re.IGNORECASE)
Sub(pat, s) == IF pat.kind = "span" THEN SpanSub(pat, s) ELSE ScanSub(pat, s, 1)

\* the `for pattern in patterns_to_remove` loop from its k-th round on
\* (no pattern matches in an empty string, which therefore stays empty)
RECURSIVE ApplyPatterns(_, _, _)
ApplyPatterns(pats, k, s) ==
    IF k > Len(pats) THEN s
    ELSE LET cleaned == Sub(pats[k], s)
         IN IF Len(cleaned) = 0 THEN <<>> ELSE ApplyPatterns(pats, k + 1, cleaned)

\* the two substitutions of now-empty brackets
EmptyParens == [kind |-> "empty", open |-> "(", close |-> ")", body |-> <<>>]
EmptyBrackets == [kind |-> "empty", open |-> "[", close |-> "]", body |-> <<>>]

\* str.strip(chars)
RECURSIVE StripChars(_, _)
StripChars(s, cs) ==
    IF s # <<>> /\ Head(s) \in cs THEN StripChars(Tail(s), cs)
    ELSE IF s # <<>> /\ s[Len(s)] \in cs
    THEN StripChars(SubSeq(s, 1, Len(s) - 1), cs)
    ELSE s

\* the characters of `.strip(" \t\n\r-_|")`
SEPARATORS == {" ", "\t", "\n", "\r", "-", "_", "|"}

\* clean_youtube_title
CleanYoutubeTitle(t) ==
    IF t = <<>> THEN <<>>
    ELSE Strip(StripChars(
            Sub(EmptyBrackets, Sub(EmptyParens, ApplyPatterns(patterns_to_remove, 1, t))),
            SEPARATORS))

\* the pieces the explored titles are put together from
Chunks ==
    { <<"S", "o", "n", "g">>,
      <<" ">>,
      <<"(", "A", "u", "d", "i", "o", ")">>,
      <<"(", "R", "e", "m", "a", "s", "t", "e", "r", "e", "d", ")">>,
      <<"[", "H", "D", "]">>,
      <<" ", "#", "a">>,
      <<"-">>,
      <<"(", "H", "D">>,
      <<")">>,
      <<"(", "f", "e", "a", "t", ".", " ", "x", ")">> }

RECURSIVE Concat(_)
Concat(ss) == IF ss = <<>> THEN <<>> ELSE Head(ss) \o Concat(Tail(ss))

Titles == { Concat(cs) : cs \in SeqsUpTo(Chunks, MaxChunks) }

\* every variable of the migration run at its value before the run
RunIdle ==
    /\ fetched_yt_songs = <<>>
    /\ spotify_playlist_id = ""
    /\ i = 1
    /\ processed_songs_cache = <<>>
    /\ successful_migrations = <<>>
    /\ not_found_or_error_migrations = <<>>
    /\ spotify_track_uris_to_add = <<>>
    /\ fuzzy_match_threshold = FUZZY_MATCH_THRESHOLD
    /\ results = <<>>
    /\ tracks = <<>>
    /\ search_result_tuple = NoMatch
    /\ events = <<>>
    /\ add_calls = <<>>
    /\ unique_uris_to_add = <<>>
    /\ add_success = ""
    /\ startup = [config |-> "", clients |-> ""]
    /\ remote_calls = <<>>
    /\ yt_pages = <<>>
    /\ yt_seen = <<>>
    /\ yt_requests = <<>>
    /\ files = {}

runVars == <<fetched_yt_songs, spotify_playlist_id, addVars, startVars,
             fetchVars, files, loopVars>>

\* cleaned_title = utils.clean_youtube_title(original_title)
CleanTitle ==
    /\ pc = "clean"
    /\ cleaned_title' = CleanYoutubeTitle(title)
    /\ pc' = "cleaned"
    /\ UNCHANGED <<runVars, title, parseVars, playlistVars>>

InitClean ==
    /\ pc = "clean"
    /\ RunIdle
    /\ title \in Titles
    /\ cleaned_title = <<>>
    /\ channel_title = NoneStr
    /\ delegate_result = NotCalled
    /\ parsed = <<NoneStr, NoneStr>>
    /\ sp_playlists = <<>>
    /\ sp_calls = <<>>

NextClean == CleanTitle

SpecClean == InitClean /\ [][NextClean]_vars

\* -------------------------------------- utils.parse_artist_song_from_title
\* the alternatives of r"\s*(VEVO|Music|Official|Records|Label)$", lower case
CHANNEL_SUFFIXES ==
    { <<"v", "e", "v", "o">>,
      <<"m", "u", "s", "i", "c">>,
      <<"o", "f", "f", "i", "c", "i", "a", "l">>,
      <<"r", "e", "c", "o", "r", "d", "s">>,
      <<"l", "a", "b", "e", "l">> }

\* re.sub(r"\s*(VEVO|Music|Official|Records|Label)$", "", channel,
\* flags=re.IGNORECASE): the leftmost position from which whitespace and then
\* one of the suffixes run to the end of the channel name starts the match
SuffixSub(channel) ==
    LET starts == { k \in DOMAIN channel :
                      \E suf \in CHANNEL_SUFFIXES :
                          /\ HasAt(channel, k + SpaceRun(channel, k), suf)
                          /\ k + SpaceRun(channel, k) + Len(suf) - 1 = Len(channel) }
    IN IF starts = {} THEN channel ELSE SubSeq(channel, 1, SetMin(starts) - 1)

\* cleaned_channel if cleaned_channel else channel_title
ChannelArtist(channel) ==
    IF Strip(SuffixSub(channel)) # <<>> THEN Strip(SuffixSub(channel)) ELSE channel

\* the characters of `.strip(" \t\n\r-_|[]()")`
EDGE_CHARS == SEPARATORS \cup {"[", "]", "(", ")"}

\* `if result:` and `len(potential_artist) > 1 and len(potential_song) > 1`
ConfidentParts_SongOnly(result) ==
    result.found /\ Len(result.song) > 1
ConfidentParts(result) ==
    result.found /\ Len(result.artist) > 1 /\ Len(result.song) > 1

\* parse_artist_song_from_title past the `if not cleaned_title` guard, with
\* `result` the answer of get_artist_title
ParseArtistSong(cleaned, channel, result) ==
    LET artist0 == IF ConfidentParts(result) THEN result.artist
                   ELSE IF Truthy(channel) THEN ChannelArtist(channel)
                   ELSE NoneStr
        song0 == IF ConfidentParts(result) THEN result.song ELSE cleaned
        artist1 == IF Truthy(artist0) THEN StripChars(artist0, EDGE_CHARS) ELSE artist0
        song1 == IF Truthy(song0) THEN StripChars(song0, EDGE_CHARS) ELSE song0
        artist2 == IF ~Truthy(artist1) /\ Truthy(channel)
                   THEN ChannelArtist(channel) ELSE artist1
    IN <<artist2, song1>>

\* what get_artist_title (library youtube_title_parse) may answer: None or a
\* pair of strings of any lengths
DelegateParts == { <<>>, <<"A">>, <<"A", "r", " ", "-">> }
DelegateResults ==
    { [called |-> TRUE, found |-> FALSE, artist |-> <<>>, song |-> <<>>] }
    \cup { [called |-> TRUE, found |-> TRUE, artist |-> a, song |-> b] :
             a \in DelegateParts, b \in DelegateParts }

\* parsed_artist, parsed_song = utils.parse_artist_song_from_title(
\*     cleaned_title, channel_title)
ParseTitle ==
    /\ pc = "cleaned"
    /\ IF cleaned_title = <<>>
       THEN /\ parsed' = <<NoneStr, NoneStr>>
            /\ UNCHANGED delegate_result
       ELSE \E result \in DelegateResults :
               /\ delegate_result' = result
               /\ parsed' = ParseArtistSong(cleaned_title, channel_title, result)
    /\ pc' = "parsed"
    /\ UNCHANGED <<runVars, cleanVars, channel_title, playlistVars>>

\* the channel names explored
Channels ==
    { NoneStr, <<>>, <<"A", "r", "t">>,
      <<"A", "r", "t", "V", "E", "V", "O">>,
      <<"A", "r", "t", " ", "m", "u", "s", "i", "c">>,
      <<"L", "a", "b", "e", "l">>,
      <<"-">>,
      <<"(", "A", "r", "t", ")", " ", "R", "e", "c", "o", "r", "d", "s">> }

\* the titles explored together with the channel names
ParseChunks ==
    { <<"S", "o", "n", "g">>,
      <<" ">>,
      <<"(", "R", "e", "m", "a", "s", "t", "e", "r", "e", "d", ")">>,
      <<"(", "A", "u", "d", "i", "o", ")">> }
ParseTitles == { Concat(cs) : cs \in SeqsUpTo(ParseChunks, MaxChunks) }

InitParse ==
    /\ pc = "clean"
    /\ RunIdle
    /\ title \in ParseTitles
    /\ cleaned_title = <<>>
    /\ channel_title \in Channels
    /\ delegate_result = NotCalled
    /\ parsed = <<NoneStr, NoneStr>>
    /\ sp_playlists = <<>>
    /\ sp_calls = <<>>

NextParse == CleanTitle \/ ParseTitle

SpecParse == InitParse /\ [][NextParse]_vars

\* --------------------------------- SpotifyClient.create_or_get_playlist
\* most playlists the current user has at the service
MaxPlaylists == 101

\* limit = 50
PLAYLIST_PAGE_LIMIT == 50

\* the arguments playlist_name and self.user_id, and the id the service
\* gives to a playlist it creates
PLAYLIST_NAME == "target"
USER_ID == "me"
NEW_PLAYLIST_ID == "pl_new"

\* playlist["name"] == playlist_name and playlist["owner"]["id"] == self.user_id
IsRequested_NameOnly(playlist) ==
    playlist.name = PLAYLIST_NAME
IsRequested(playlist) ==
    playlist.name = PLAYLIST_NAME /\ playlist.owner = USER_ID

\* self.sp.current_user_playlists(limit, offset): the service answers with
\* the slice of the user's playlists and their total number
PlaylistPage(pls, offset) ==
    [items |-> SubSeq(pls, offset + 1, Min(offset + PLAYLIST_PAGE_LIMIT, Len(pls))),
     total |-> Len(pls)]

ListCall(offset, outcome) == [op |-> "list", offset |-> offset, outcome |-> outcome]
CreateCall(outcome) == [op |-> "create", offset |-> 0, outcome |-> outcome]

\* the `while True` loop from `offset` on; `calls` are the remote calls made
\* so far and the fail_at-th remote call raises (0: none does).  Gives the
\* playlist_id found ("" for None), the calls made and whether one raised.
RECURSIVE PlaylistLookup(_, _, _, _)
PlaylistLookup(pls, offset, calls, fail_at) ==
    IF Len(calls) + 1 = fail_at
    THEN [playlist_id |-> "", raised |-> TRUE,
          calls |-> Append(calls, ListCall(offset, "error"))]
    ELSE LET playlists == PlaylistPage(pls, offset)
             made == Append(calls, ListCall(offset, "ok"))
             hits == { k \in DOMAIN playlists.items : IsRequested(playlists.items[k]) }
         IN IF playlists.items = <<>>
            THEN [playlist_id |-> "", raised |-> FALSE, calls |-> made]
            ELSE IF hits # {}
            THEN [playlist_id |-> playlists.items[SetMin(hits)].id,
                  raised |-> FALSE, calls |-> made]
            ELSE IF offset + PLAYLIST_PAGE_LIMIT >= playlists.total
            THEN [playlist_id |-> "", raised |-> FALSE, calls |-> made]
            ELSE PlaylistLookup(pls, offset + PLAYLIST_PAGE_LIMIT, made, fail_at)

\* create_or_get_playlist with its remote calls: the lookup, then
\* user_playlist_create `if not playlist_id`; both `except` branches
\* return None
CreateOrGetPlaylistCalls ==
    /\ pc = "playlist"
    /\ remote_calls' = Append(remote_calls, "create_or_get_playlist")
    /\ \E fail_at \in 0..(MaxPlaylists \div PLAYLIST_PAGE_LIMIT + 2) :
          LET found == PlaylistLookup(sp_playlists, 0, sp_calls, fail_at)
              create_raises == Len(found.calls) + 1 = fail_at
          IN IF found.raised
             THEN /\ sp_calls' = found.calls
                  /\ spotify_playlist_id' = ""
                  /\ UNCHANGED sp_playlists
             ELSE IF found.playlist_id # ""
             THEN /\ sp_calls' = found.calls
                  /\ spotify_playlist_id' = found.playlist_id
                  /\ UNCHANGED sp_playlists
             ELSE IF create_raises
             THEN /\ sp_calls' = Append(found.calls, CreateCall("error"))
                  /\ spotify_playlist_id' = ""
                  /\ UNCHANGED sp_playlists
             ELSE /\ sp_calls' = Append(found.calls, CreateCall("ok"))
                  /\ spotify_playlist_id' = NEW_PLAYLIST_ID
                  /\ sp_playlists' =
                        Append(sp_playlists,
                               [name |-> PLAYLIST_NAME, owner |-> USER_ID,
                                id |-> NEW_PLAYLIST_ID])
    /\ pc' = PlaylistNext(spotify_playlist_id')
    /\ UNCHANGED <<fetched_yt_songs, addVars, startup, files, fetchVars,
                   cleanVars, parseVars>>
    /\ UNCHANGED loopVars

\* the positions explored for the first playlist of the requested name that
\* the user owns (0: there is none) among n playlists
Marks(n) == {0} \cup ({1, 50, 51, 100, 101, n} \cap 1..n)

\* n playlists of the user's library: the requested one at position m, with
\* `later` a second one at the end, with `decoy` a playlist of the same name
\* owned by somebody else at the front
PlaylistsOf(n, m, later, decoy) ==
    [k \in 1..n |->
        [name |-> IF k = m \/ (later /\ k = n) \/ (decoy /\ k = 1)
                  THEN PLAYLIST_NAME ELSE "other",
         owner |-> IF k = m \/ (later /\ k = n /\ m # 0) THEN USER_ID
                   ELSE IF decoy /\ k = 1 THEN "them"
                   ELSE IF k % 2 = 0 THEN USER_ID ELSE "them",
         id |-> "pl_" \o ToString(k)]]

InitPlaylist ==
    /\ pc = "playlist"
    /\ fetched_yt_songs = <<>>
    /\ spotify_playlist_id = ""
    /\ i = 1
    /\ processed_songs_cache = <<>>
    /\ successful_migrations = <<>>
    /\ not_found_or_error_migrations = <<>>
    /\ spotify_track_uris_to_add = <<>>
    /\ fuzzy_match_threshold = FUZZY_MATCH_THRESHOLD
    /\ results = <<>>
    /\ tracks = <<>>
    /\ search_result_tuple = NoMatch
    /\ events = <<>>
    /\ add_calls = <<>>
    /\ unique_uris_to_add = <<>>
    /\ add_success = ""
    /\ startup = [config |-> "valid", clients |-> "ok"]
    /\ remote_calls = <<"get_playlist_items">>
    /\ yt_pages = <<>>
    /\ yt_seen = <<>>
    /\ yt_requests = <<>>
    /\ title = <<>>
    /\ cleaned_title = <<>>
    /\ channel_title = NoneStr
    /\ delegate_result = NotCalled
    /\ parsed = <<NoneStr, NoneStr>>
    /\ sp_playlists \in { PlaylistsOf(n, m, later, decoy) :
                            n \in 0..MaxPlaylists, m \in Marks(MaxPlaylists),
                            later \in BOOLEAN, decoy \in BOOLEAN }
    /\ sp_calls = <<>>
    /\ files = {"fetched"}

NextPlaylist == CreateOrGetPlaylistCalls

SpecPlaylist == InitPlaylist /\ [][NextPlaylist]_vars

\* =================================================================== claims
\* the cache key as the specification words it: lower-cased, trimmed
\* artist-or-None and lower-cased, trimmed song
NormKey(yt_song) ==
    << IF yt_song.parsed_artist = NoneStr \/ yt_song.parsed_artist = <<>>
       THEN NoneStr ELSE Strip(Lower(yt_song.parsed_artist)),
       Strip(Lower(yt_song.parsed_song_name)) >>

\* the song name is absent or empty
SongAbsent(yt_song) ==
    yt_song.parsed_song_name = NoneStr \/ yt_song.parsed_song_name = <<>>

ItemIdx == 1..Len(fetched_yt_songs)

\* items j and k are both searchable and share the cache key
SameKey(j, k) ==
    /\ ~SongAbsent(fetched_yt_songs[j])
    /\ ~SongAbsent(fetched_yt_songs[k])
    /\ NormKey(fetched_yt_songs[j]) = NormKey(fetched_yt_songs[k])

\* item j is the first searchable item with its key
FirstOfKey(j) == ~\E k \in 1..(j - 1) : SameKey(k, j)

AllResults ==
    Range(successful_migrations) \cup Range(not_found_or_error_migrations)

\* the remote searches issued for item j, in order
SearchEvs(j) == SelectSeq(events, LAMBDA e : e.ev = "search" /\ e.item = j)

\* the pacing delays inserted while item j was processed
SleepEvs(j) == SelectSeq(events, LAMBDA e : e.ev = "sleep" /\ e.item = j)

\* the invocations of search_track for item j
CallEvs(j) == SelectSeq(events, LAMBDA e : e.ev = "search_track" /\ e.item = j)

\* C1: in one run at most one search_track invocation (one run of the
\* two-attempt policy: at most one targeted and one broader call) is issued
\* per distinct cache key; a later item with the same key causes no remote
\* search at all.
C1_OneSearchPerKey ==
    /\ \A a, b \in DOMAIN events :
          /\ events[a].ev = events[b].ev
          /\ events[a].ev \in {"search", "search_track"}
          /\ events[a].kind = events[b].kind
          /\ SameKey(events[a].item, events[b].item)
          => a = b
    /\ \A j \in ItemIdx :
          ~FirstOfKey(j) => SearchEvs(j) = <<>> /\ CallEvs(j) = <<>>

\* C1 witness: two items that differ in their text but share the key have
\* both been processed, and the key was searched
C1_Witness ==
    /\ pc = "loop"
    /\ \E j, k \in 1..(i - 1) :
          /\ j < k
          /\ SameKey(j, k)
          /\ fetched_yt_songs[j] # fetched_yt_songs[k]
          /\ SearchEvs(j) # <<>>

\* C2: two items of one run with the same cache key get the same verdict:
\* the same track (same URI) or no track for both.
C2_SameKeySameVerdict ==
    \A r1, r2 \in AllResults :
       SameKey(r1.item, r2.item)
       => /\ r1.spotify_track.uri = r2.spotify_track.uri
          /\ (r1.spotify_track = NoTrack) = (r2.spotify_track = NoTrack)

\* C2 witness: two results for differently written items of one key, both
\* carrying the same track
C2_Witness ==
    \E r1 \in Range(successful_migrations) :
    \E r2 \in Range(successful_migrations) :
       /\ r1.item < r2.item
       /\ SameKey(r1.item, r2.item)
       /\ fetched_yt_songs[r1.item] # fetched_yt_songs[r2.item]
       /\ r1.spotify_track.uri = "u1"
       /\ r2.spotify_track.uri = "u1"

\* C3: the first searchable item of a key gets SUCCESS or NOT_FOUND and its
\* verdict is stored under the key; every later item of that key gets
\* SUCCESS (Cached) when the stored verdict is a track and NOT_FOUND (Cached)
\* when it is the no-match marker.
C3_StatusByOccurrence ==
    \A r \in AllResults :
       ~SongAbsent(fetched_yt_songs[r.item])
       => LET key == NormKey(fetched_yt_songs[r.item]) IN
          /\ key \in DOMAIN processed_songs_cache
          /\ IF FirstOfKey(r.item)
             THEN /\ r.status \in {"SUCCESS", "NOT_FOUND"}
                  /\ (r.status = "SUCCESS") = (r.spotify_track # NoTrack)
                  /\ processed_songs_cache[key] = r.spotify_track
             ELSE r.status = IF processed_songs_cache[key] # NoTrack
                             THEN "SUCCESS (Cached)"
                             ELSE "NOT_FOUND (Cached)"

\* C3 witness: a key whose first item was NOT_FOUND and whose later item was
\* answered NOT_FOUND (Cached)
C3_Witness ==
    \E r1, r2 \in Range(not_found_or_error_migrations) :
       /\ r1.item < r2.item
       /\ SameKey(r1.item, r2.item)
       /\ r1.status = "NOT_FOUND"
       /\ r2.status = "NOT_FOUND (Cached)"

\* search_track has returned for item j
SearchDone(j) == j < i \/ (j = i /\ pc = "returned")

\* the targeted query as the specification words it
TargetedQueryOf(yt_song) ==
    IF yt_song.parsed_artist # NoneStr /\ yt_song.parsed_artist # <<>>
    THEN <<"track:">> \o yt_song.parsed_song_name
         \o <<" ", "artist:">> \o yt_song.parsed_artist
    ELSE <<"track:">> \o yt_song.parsed_song_name

\* C4: the targeted query is always the first remote call of search_track,
\* and the broader query is issued if and only if the targeted attempt gave
\* zero results (empty list or error); a targeted attempt with at least one
\* candidate is the only call for the item, also when nothing clears the
\* threshold.
C4_BroaderIffTargetedEmpty ==
    \A j \in ItemIdx :
       LET se == SearchEvs(j) IN
       /\ Len(se) <= 2
       /\ Len(se) >= 1
          => /\ se[1].kind = "targeted"
             /\ se[1].q = TargetedQueryOf(fetched_yt_songs[j])
       /\ Len(se) = 2
          => /\ se[2].kind = "broader"
             /\ se[1].outcome \in {"raise", "empty"}
       /\ (SearchDone(j) /\ Len(se) >= 1 /\ se[1].outcome \in {"raise", "empty"})
          => Len(se) = 2
       /\ (SearchDone(j) /\ CallEvs(j) # <<>>) => Len(se) >= 1

\* C4 witness: a targeted attempt returned candidates, none cleared the
\* threshold, and search_track returned after that single call
C4_Witness ==
    /\ pc = "returned"
    /\ ~search_result_tuple.found
    /\ Len(SearchEvs(i)) = 1
    /\ SearchEvs(i)[1].outcome = "items"
    /\ Truthy(fetched_yt_songs[i].parsed_artist)

\* C5: when the targeted call raises, search_track goes on to the broader
\* call, and when that returns candidates it returns what the scorer selects
\* from them, the same as after a targeted attempt with zero results.
C5_TargetedErrorFallsBack ==
    pc = "returned"
    => LET se == SearchEvs(i) IN
       (Len(se) >= 1 /\ se[1].outcome \in {"raise", "empty"})
       => /\ Len(se) = 2
          /\ se[2].outcome = "items"
             => /\ results # <<>>
                /\ search_result_tuple
                      = SelectBest(results, fuzzy_match_threshold)

\* C5 witness: the targeted call raised, the broader call returned a
\* candidate and search_track returned it as the match
C5_Witness ==
    /\ pc = "returned"
    /\ Len(SearchEvs(i)) = 2
    /\ SearchEvs(i)[1].outcome = "raise"
    /\ SearchEvs(i)[2].outcome = "items"
    /\ search_result_tuple.found
    /\ search_result_tuple.track.uri = results[1].uri

\* the search of item j ended with a failed or empty broader attempt
BroaderFailed(j) ==
    LET se == SearchEvs(j) IN
    /\ SearchDone(j)
    /\ Len(se) = 2
    /\ se[2].outcome \in {"raise", "empty"}

\* C6: when the broader call raises, or both attempts give zero results,
\* search_track returns no match without raising; the item is recorded as
\* NOT_FOUND in the not-found set and the run goes on to give every
\* remaining item its result.
C6_SearchErrorDegradesToNotFound ==
    /\ pc # "crashed"
    /\ (pc = "returned" /\ BroaderFailed(i)) => search_result_tuple = NoMatch
    /\ \A j \in 1..(i - 1) :
          BroaderFailed(j)
          => /\ \E r \in Range(not_found_or_error_migrations) :
                   r.item = j /\ r.status = "NOT_FOUND"
             /\ ~\E r \in Range(successful_migrations) : r.item = j
    /\ pc \in {"write", "done"}
       => \A j \in ItemIdx : \E r \in AllResults : r.item = j

\* C6 witness: the run completed although the broader call of an item
\* raised, and an item after it was matched
C6_Witness ==
    /\ pc = "done"
    /\ \E j \in ItemIdx :
          /\ BroaderFailed(j)
          /\ SearchEvs(j)[2].outcome = "raise"
          /\ \E r \in Range(successful_migrations) :
                r.item > j /\ r.status = "SUCCESS"

\* C7: processing an item whose song name is absent or empty appends a
\* SKIPPED result to the not-found set and changes nothing else: no remote
\* search, no pacing delay, cache and URI list unchanged; the loop moves on
\* to the next item.
C7_SkipFrame ==
    [][(pc = "loop" /\ i <= Len(fetched_yt_songs)
        /\ SongAbsent(fetched_yt_songs[i]))
       => /\ not_found_or_error_migrations' =
                Append(not_found_or_error_migrations,
                       MigrationResult(i, NoTrack, NoScore, "SKIPPED"))
          /\ i' = i + 1
          /\ pc' = "loop"
          /\ UNCHANGED <<events, processed_songs_cache,
                         spotify_track_uris_to_add, successful_migrations>>]_vars

\* C7 witness: an item was skipped after an earlier item had been searched
\* and matched, and the loop went on to the item after it
C7_Witness ==
    /\ pc = "loop"
    /\ \E r \in Range(not_found_or_error_migrations) :
          /\ r.status = "SKIPPED"
          /\ r.item > 1
          /\ r.item < i - 1
          /\ fetched_yt_songs[r.item].parsed_song_name = <<>>
    /\ spotify_track_uris_to_add # <<>>

\* ------------------------------------------------------- scorer claims
\* the candidate has a name and at least one artist name
HasNameAndArtist(it) ==
    it.name # "" /\ \E k \in DOMAIN it.artists : it.artists[k] # ""

\* positions of the scored candidates that reach the threshold
Clearing ==
    { k \in DOMAIN tracks :
         HasNameAndArtist(tracks[k]) /\ tracks[k].score >= fuzzy_match_threshold }

\* the highest score among them
MaxClearingScore ==
    CHOOSE m \in { tracks[k].score : k \in Clearing } :
       \A k \in Clearing : tracks[k].score <= m

\* the scorer has run on `tracks`
Scored == pc = "returned" /\ tracks # <<>>

\* C8: whenever some candidate with a name and an artist name scores at
\* least the threshold, the scorer returns a candidate whose score is the
\* maximum over all such candidates.
C8_ReturnsMaxScore ==
    (Scored /\ Clearing # {})
    => /\ search_result_tuple.found
       /\ tracks[search_result_tuple.idx].score = MaxClearingScore

\* C9: of two candidates with the same score at or above the threshold and
\* no higher-scoring candidate, the scorer selects the first in iteration
\* order.
C9_TieKeepsFirst ==
    (Scored /\ \E j, k \in Clearing :
                  /\ j < k
                  /\ tracks[j].score = MaxClearingScore
                  /\ tracks[k].score = MaxClearingScore)
    => /\ search_result_tuple.found
       /\ tracks[search_result_tuple.idx].score = MaxClearingScore
       /\ \A k \in Clearing :
             tracks[k].score = MaxClearingScore => search_result_tuple.idx <= k

\* C10: a match is returned only with a score s, threshold <= s <= 100, and
\* no match is returned when every candidate scores below the threshold.
C10_ScoreWithinBounds ==
    Scored
    => /\ search_result_tuple.found
          => /\ search_result_tuple.track # NoTrack
             /\ search_result_tuple.score >= fuzzy_match_threshold
             /\ search_result_tuple.score <= 100
       /\ Clearing = {} => search_result_tuple = NoMatch

\* C10 witness: a candidate exactly at the threshold was returned while
\* another candidate scored just below it
C10_Witness ==
    /\ Scored
    /\ fuzzy_match_threshold = FUZZY_MATCH_THRESHOLD
    /\ search_result_tuple.found
    /\ search_result_tuple.score = fuzzy_match_threshold
    /\ \E k \in DOMAIN tracks :
          HasNameAndArtist(tracks[k]) /\ tracks[k].score = 84

\* C11: for a fixed candidate list, when the scorer returns no match at a
\* threshold it returns no match at every higher threshold: raising the
\* threshold never turns a NOT_FOUND into a MATCH.
C11_ThresholdMonotone ==
    (Scored /\ ~search_result_tuple.found)
    => \A t \in 0..100 :
          t > fuzzy_match_threshold => ~SelectBest(tracks, t).found

\* C11 witness: no match at the configured threshold for a list that does
\* give a match at a lower threshold
C11_Witness ==
    /\ Scored
    /\ fuzzy_match_threshold = FUZZY_MATCH_THRESHOLD
    /\ ~search_result_tuple.found
    /\ \E t \in 0..100 :
          t < fuzzy_match_threshold /\ SelectBest(tracks, t).found

\* ------------------------------------------------------- pacing claims
\* C12: every remote search call of a finished search_track invocation,
\* targeted or broader and whatever it returned, is followed by a pacing
\* delay before the next remote search call and before search_track ends.
C12_DelayAfterEverySearch ==
    \A a \in DOMAIN events :
       (events[a].ev = "search" /\ SearchDone(events[a].item))
       => \E b \in (a + 1)..Len(events) :
             /\ events[b].ev = "sleep"
             /\ events[b].item = events[a].item
             /\ \A c \in (a + 1)..(b - 1) : events[c].ev # "search"

\* C13: an item that makes no remote search call, because it is served
\* from the cache (its key was seen before, with a match or with no match)
\* or because its song name is missing, is processed with zero pacing
\* delays, and it completes with its result.
C13_NoDelayWithoutSearch ==
    \A j \in ItemIdx :
       (SongAbsent(fetched_yt_songs[j]) \/ ~FirstOfKey(j))
       => /\ SleepEvs(j) = <<>>
          /\ j < i => \E r \in AllResults : r.item = j

\* C13 witness: a searched item saw a delay, the next item hit its no-match
\* cache entry and the third item was skipped, both without any delay
C13_Witness ==
    /\ i = 4
    /\ SleepEvs(1) # <<>>
    /\ SameKey(1, 2)
    /\ \E r \in AllResults : r.item = 2 /\ r.status = "NOT_FOUND (Cached)"
    /\ SongAbsent(fetched_yt_songs[3])
    /\ \E r \in AllResults : r.item = 3 /\ r.status = "SKIPPED"
    /\ SleepEvs(2) = <<>> /\ SleepEvs(3) = <<>>

\* ------------------------------------------------------ add-step claims
\* the add calls of add_tracks_to_playlist, in order
AddEvs == SelectSeq(add_calls, LAMBDA e : e.ev = "add")

RECURSIVE Flatten(_)
Flatten(batches) ==
    IF batches = <<>> THEN <<>>
    ELSE Head(batches).items \o Flatten(Tail(batches))

\* every URI sent to the playlist, in the order sent
SentUris == Flatten(AddEvs)

\* the URIs of the results in the success set
SuccessUris == { r.spotify_track.uri : r \in Range(successful_migrations) }

\* C14: the list run_migration hands to add_tracks_to_playlist holds the
\* URI of every result of the success set exactly once and no other URI,
\* and no URI is sent to the playlist twice, however many items reached it.
C14_UrisPassedOnce ==
    /\ pc \in {"add", "write", "done"}
       => /\ Range(unique_uris_to_add) = SuccessUris
          /\ \A a, b \in DOMAIN unique_uris_to_add :
                a # b => unique_uris_to_add[a] # unique_uris_to_add[b]
    /\ pc \in {"write", "done"}
       => /\ SentUris = unique_uris_to_add
          /\ SuccessUris = {} => add_calls = <<>>

\* C14 witness: three items, the second a cache hit of the first and the
\* third with another key, all resolved to one track that was sent once
C14_Witness ==
    /\ pc = "done"
    /\ Len(successful_migrations) = 3
    /\ SameKey(1, 2)
    /\ ~SameKey(1, 3)
    /\ Cardinality(SuccessUris) = 1
    /\ Len(spotify_track_uris_to_add) = 3
    /\ Len(SentUris) = 1

\* add_tracks_to_playlist has returned
AddReturned == add_success # ""

\* the least number of chunks of at most L elements that hold n elements
CeilDiv(n, L) == CHOOSE c \in 0..n : c * L >= n /\ (c = 0 \/ (c - 1) * L < n)

\* C15: add_tracks_to_playlist with n URIs and limit L issues ceil(n/L) add
\* calls, each with at most L URIs and every call but the last with exactly
\* L; the batches concatenated are the input list; for n = 0 there is no
\* call and the result is True; 105 URIs with L = 100 give two calls, of
\* 100 and of 5 URIs.
C15_Batching ==
    AddReturned
    => LET n == Len(unique_uris_to_add)
           L == SPOTIFY_MAX_TRACKS_PER_ADD_REQUEST
       IN /\ Len(AddEvs) = CeilDiv(n, L)
          /\ \A k \in DOMAIN AddEvs :
                /\ Len(AddEvs[k].items) <= L
                /\ k < Len(AddEvs) => Len(AddEvs[k].items) = L
          /\ SentUris = unique_uris_to_add
          /\ n = 0 => add_calls = <<>> /\ add_success = "True"
          /\ (n = 105 /\ L = 100)
             => /\ Len(AddEvs) = 2
                /\ Len(AddEvs[1].items) = 100
                /\ Len(AddEvs[2].items) = 5

\* C15 witness: 105 URIs were sent in two calls, the second with 5 URIs
C15_Witness ==
    /\ AddReturned
    /\ Len(unique_uris_to_add) = 105
    /\ Len(AddEvs) = 2
    /\ Len(AddEvs[2].items) = 5
    /\ AddEvs[2].items[5] = unique_uris_to_add[105]

\* C16: a failed add call does not stop add_tracks_to_playlist: every
\* remaining batch is still sent, the function returns, and it returns
\* False exactly when at least one batch failed.
C16_BatchFailureContinues ==
    AddReturned
    => /\ \A k \in DOMAIN AddEvs :
             ~AddEvs[k].ok
             => Len(AddEvs) = CeilDiv(Len(unique_uris_to_add),
                                      SPOTIFY_MAX_TRACKS_PER_ADD_REQUEST)
       /\ SentUris = unique_uris_to_add
       /\ add_success \in {"True", "False"}
       /\ add_success = "False" <=> \E k \in DOMAIN AddEvs : ~AddEvs[k].ok

\* C16 witness: the first of three batches failed, the other two were sent
\* and succeeded, and the function returned False
C16_Witness ==
    /\ AddReturned
    /\ Len(AddEvs) = 3
    /\ ~AddEvs[1].ok /\ AddEvs[2].ok /\ AddEvs[3].ok
    /\ add_success = "False"

\* C17: when more than one chunk is sent, a pacing delay lies between every
\* two consecutive add calls, whether the earlier one succeeded or failed;
\* when exactly one chunk is sent there is no delay.
C17_DelayBetweenBatches ==
    AddReturned
    => /\ \A a \in DOMAIN add_calls :
             (add_calls[a].ev = "add"
              /\ \E b \in (a + 1)..Len(add_calls) : add_calls[b].ev = "add")
             => add_calls[a + 1].ev = "sleep"
       /\ Len(AddEvs) = 1 => Len(add_calls) = 1

\* ---------------------------------------------------- result-set claims
\* the processing loop of run_migration is over
LoopOver ==
    \/ pc \in {"add", "write", "done"}
    \/ pc = "loop" /\ i > Len(fetched_yt_songs)

\* the positions of list `rs` that hold a result of item j
ResultsOf(rs, j) == { k \in DOMAIN rs : rs[k].item = j }

\* the results of list `rs` follow the playlist order
InPlaylistOrder(rs) ==
    \A a, b \in DOMAIN rs : a < b => rs[a].item < rs[b].item

\* C18: after the processing loop every fetched item has exactly one
\* MigrationResult, in exactly one of the two result lists, so their lengths
\* sum to the number of fetched items; the success list holds exactly the
\* results with status SUCCESS or SUCCESS (Cached); each list is in playlist
\* order.
C18_OneResultPerItem ==
    LoopOver
    => /\ \A j \in ItemIdx :
             Cardinality(ResultsOf(successful_migrations, j))
             + Cardinality(ResultsOf(not_found_or_error_migrations, j)) = 1
       /\ Len(successful_migrations) + Len(not_found_or_error_migrations)
          = Len(fetched_yt_songs)
       /\ \A k \in DOMAIN successful_migrations :
             successful_migrations[k].status \in {"SUCCESS", "SUCCESS (Cached)"}
       /\ \A k \in DOMAIN not_found_or_error_migrations :
             not_found_or_error_migrations[k].status
                \notin {"SUCCESS", "SUCCESS (Cached)"}
       /\ InPlaylistOrder(successful_migrations)
       /\ InPlaylistOrder(not_found_or_error_migrations)

\* C18 witness: a fresh match, then a skipped item, then a cached match: the
\* success list holds items 1 and 3, the other list item 2
C18_Witness ==
    /\ pc = "done"
    /\ Len(fetched_yt_songs) = 3
    /\ Len(successful_migrations) = 2
    /\ successful_migrations[1].item = 1
    /\ successful_migrations[1].status = "SUCCESS"
    /\ successful_migrations[2].item = 3
    /\ successful_migrations[2].status = "SUCCESS (Cached)"
    /\ Len(not_found_or_error_migrations) = 1
    /\ not_found_or_error_migrations[1].status = "SKIPPED"

\* ------------------------------------------------- start-up and output
\* the run got past start-up: valid configuration, both clients built
PastStartup == startup.config = "valid" /\ startup.clients = "ok"

\* run_migration has returned
RunEnded == pc \in {"exit", "done"}

AllFiles == {"fetched", "success", "not_found"}

\* C19 as stated: every run that gets past start-up ends with all three
\* output files written, whatever the fetch, the playlist lookup, the
\* searches and the add returned.
C19_AllFilesAlways ==
    (PastStartup /\ RunEnded) => files = AllFiles

\* C19 amended: a run past start-up always goes on until it returns; when
\* the fetch returned at least one item and a target playlist id was
\* obtained it ends with all three files handed to the writers, whatever the
\* searches and the add returned; when the fetch returned nothing no file
\* is written, and when no playlist id was obtained only the fetched file is.
C19_FilesByOutcome ==
    PastStartup
    => /\ ~RunEnded => ENABLED Next
       /\ RunEnded
          => IF fetched_yt_songs = <<>> THEN pc = "exit" /\ files = {}
             ELSE IF spotify_playlist_id = ""
             THEN pc = "exit" /\ files = {"fetched"}
             ELSE pc = "done" /\ files = AllFiles

\* C19 witness: a complete run in which a search failed and the add call
\* failed, and all three files were written
C19_Witness ==
    /\ PastStartup
    /\ pc = "done"
    /\ files = AllFiles
    /\ \E j \in ItemIdx : BroaderFailed(j)
    /\ add_success = "False"

\* validation failed or a client constructor raised
StartupFailed ==
    \/ startup.config = "invalid"
    \/ startup.clients \in {"ValueError", "ConnectionError", "Exception"}

\* C20: when configuration validation fails or a client fails to
\* initialize, the run ends before any processing: no playlist fetch, no
\* playlist lookup or creation, no search and no add call is made.
C20_StartupFailureStopsRun ==
    StartupFailed
    => /\ pc = "exit"
       /\ remote_calls = <<>>
       /\ events = <<>>
       /\ add_calls = <<>>
       /\ fetched_yt_songs = <<>>
       /\ yt_pages = <<>>
    /\ yt_seen = <<>>
    /\ yt_requests = <<>>
    /\ title = <<>>
    /\ cleaned_title = <<>>
    /\ channel_title = NoneStr
    /\ delegate_result = NotCalled
    /\ parsed = <<NoneStr, NoneStr>>
    /\ sp_playlists = <<>>
    /\ sp_calls = <<>>
    /\ files = {}

\* C20 witness: the configuration was valid, a client constructor raised
\* ConnectionError and the run has ended
C20_Witness ==
    /\ startup.config = "valid"
    /\ startup.clients = "ConnectionError"
    /\ pc = "exit"
    /\ remote_calls = <<>>

\* ------------------------------------------- get_playlist_items claims
\* get_playlist_items has returned
Fetched == remote_calls # <<>>

\* some request of the fetch failed
FetchFailed == \E k \in DOMAIN yt_requests : yt_requests[k].outcome # "ok"

\* the entry is one the claim excludes: an unavailable video, or an entry
\* without a video id or without a title
Unavailable(e) ==
    \/ e.video_id = ""
    \/ e.title = NoneStr \/ e.title = <<>>
    \/ Lower(e.title) \in {PRIVATE_VIDEO, DELETED_VIDEO}

\* the entries received that are not excluded, in the order received
KeptEntries == SelectSeq(yt_seen, LAMBDA e : ~Unavailable(e))

\* the source item an entry becomes
ItemOfEntry(e) ==
    [parsed_artist |-> e.parsed[1], parsed_song_name |-> e.parsed[2]]

\* C21: get_playlist_items always returns; when a request fails it returns
\* the empty list even if earlier pages were fetched; when none fails it has
\* followed nextPageToken from the first request until a page came without
\* one, and returns the items of all pages in page order.
C21_FetchAllOrNothing ==
    Fetched
    => /\ pc \in {"exit", "playlist", "loop", "targeted", "broader", "score",
                  "returned", "add", "write", "done"}
       /\ FetchFailed => fetched_yt_songs = <<>>
       /\ ~FetchFailed
          => /\ yt_pages = <<>>
             /\ yt_requests[1].pageToken = ""
             /\ \A k \in 1..(Len(yt_requests) - 1) :
                   /\ yt_requests[k].nextPageToken # ""
                   /\ yt_requests[k + 1].pageToken = yt_requests[k].nextPageToken
             /\ yt_requests[Len(yt_requests)].nextPageToken = ""
             /\ Len(fetched_yt_songs) = Len(KeptEntries)
             /\ \A k \in DOMAIN KeptEntries :
                   fetched_yt_songs[k] = ItemOfEntry(KeptEntries[k])

\* C21 witness: the first page brought an available video, the second
\* request failed, and the empty list was returned
C21_Witness ==
    /\ Fetched
    /\ Len(yt_requests) = 2
    /\ yt_requests[2].outcome = "HttpError"
    /\ KeptEntries # <<>>
    /\ fetched_yt_songs = <<>>
    /\ pc = "exit"

\* C22: an entry titled 'Private video' or 'Deleted video' in any letter
\* case, or without a video id or a title, never becomes a source item: the
\* fetched list is exactly the other entries in their order, and every
\* result and every remote search belongs to one of those.
C22_UnavailableNeverItem ==
    Fetched
    => /\ Len(fetched_yt_songs) <= Len(KeptEntries)
       /\ \A k \in DOMAIN fetched_yt_songs :
             fetched_yt_songs[k] = ItemOfEntry(KeptEntries[k])
       /\ \A r \in AllResults : r.item \in DOMAIN KeptEntries
       /\ \A k \in DOMAIN events : events[k].item \in DOMAIN KeptEntries
       /\ LoopOver
          => Len(successful_migrations) + Len(not_found_or_error_migrations)
             = Len(KeptEntries)

\* C22 witness: a private video stood between two available videos; the run
\* ended with two results and a search for the first item only
C22_Witness ==
    /\ pc = "done"
    /\ Len(yt_seen) = 3
    /\ ~Unavailable(yt_seen[1])
    /\ yt_seen[2].title # NoneStr
    /\ Lower(yt_seen[2].title) = PRIVATE_VIDEO
    /\ yt_seen[2].title # PRIVATE_VIDEO
    /\ ~Unavailable(yt_seen[3])
    /\ yt_seen[1] # yt_seen[3]
    /\ Len(fetched_yt_songs) = 2
    /\ Cardinality(AllResults) = 2
    /\ SearchEvs(1) # <<>>

\* ---- clean_youtube_title (SpecClean)
Cleaned == pc = "cleaned"

\* `sub` occurs in s
Contains(s, sub) ==
    \E k \in 1..(Len(s) - Len(sub) + 1) : SubSeq(s, k, k + Len(sub) - 1) = sub

\* C23: normalization is idempotent: cleaning the cleaned title again gives
\* the cleaned title, so nothing a rule would remove survives the first pass
C23_Idempotent ==
    Cleaned => CleanYoutubeTitle(cleaned_title) = cleaned_title

\* the innermost parenthesized spans of s that no rule applies to: no
\* bracket or hashtag inside, and no entry of patterns_to_remove nor the
\* empty-pair rule matches the span taken alone
PlainSpans(s) ==
    { SubSeq(s, a, b) : <<a, b>> \in
        { ab \in (DOMAIN s) \X (DOMAIN s) :
            /\ ab[1] < ab[2]
            /\ s[ab[1]] = "("
            /\ s[ab[2]] = ")"
            /\ \A k \in (ab[1] + 1)..(ab[2] - 1) : s[k] \notin {"(", ")", "[", "]", "#"}
            /\ \A n \in DOMAIN patterns_to_remove :
                  Sub(patterns_to_remove[n], SubSeq(s, ab[1], ab[2])) = SubSeq(s, ab[1], ab[2])
            /\ Sub(EmptyParens, SubSeq(s, ab[1], ab[2])) = SubSeq(s, ab[1], ab[2]) } }

\* C24: a parenthesized span that contains no marker is preserved by
\* clean_youtube_title, whatever else the title holds
C24_KeepsPlainSpans ==
    Cleaned => \A sp \in PlainSpans(title) : Contains(cleaned_title, sp)

\* ---- parse_artist_song_from_title (SpecParse)
Parsed == pc = "parsed"

\* the delegate failed, or one of the parts it gave has at most one character
LowConfidence(r) == ~r.found \/ Len(r.artist) <= 1 \/ Len(r.song) <= 1

\* the channel name without a trailing VEVO/Music/Official/Records/Label
\* (any letter case, with the whitespace before it), trimmed; the raw
\* channel name if that leaves nothing; None if there is no channel name
DerivedArtist(channel) ==
    IF channel = NoneStr \/ channel = <<>> THEN NoneStr
    ELSE LET cuts == { k \in 0..Len(channel) :
                         LStrip(Lower(SubSeq(channel, k + 1, Len(channel))))
                             \in CHANNEL_SUFFIXES }
             base == IF cuts = {} THEN Strip(channel)
                     ELSE Strip(SubSeq(channel, 1, SetMin(cuts)))
         IN IF base # <<>> THEN base ELSE channel

\* s without its leading and trailing separator and bracket characters
EdgeTrim(s) ==
    LET keep == { k \in DOMAIN s : s[k] \notin EDGE_CHARS }
    IN IF keep = {} THEN <<>> ELSE SubSeq(s, SetMin(keep), SetMax(keep))

\* an empty cleaned title gives (None, None) without asking the delegate
EmptyTitleUnparsed ==
    cleaned_title = <<>> =>
        parsed = <<NoneStr, NoneStr>> /\ ~delegate_result.called

OwnedByName(pls) ==
    { k \in DOMAIN pls : pls[k].name = PLAYLIST_NAME /\ pls[k].owner = USER_ID }

ListCalls(calls) == SelectSeq(calls, LAMBDA c : c.op = "list")
CreateCalls(calls) == SelectSeq(calls, LAMBDA c : c.op = "create")
CallRaised(calls) == \E k \in DOMAIN calls : calls[k].outcome = "error"

\* C26: create_or_get_playlist pages through the user's playlists 50 at a
\* time from offset 0 and never asks for a page at or past the total; if the
\* user owns a playlist of the requested name it returns the id of the first
\* one, having read just the pages up to it, and creates nothing; if no
\* page has one it creates exactly one playlist, after reading every page,
\* and returns its id; if a remote call raises it returns None and nothing
\* is created
C26_FindOrCreateOnce ==
    [][pc = "playlist" /\ pc' # "playlist" =>
        LET pls == sp_playlists
            calls == sp_calls'
            lists == ListCalls(calls)
            creates == CreateCalls(calls)
            owned == OwnedByName(pls)
        IN /\ \A k \in DOMAIN lists :
                 /\ lists[k].offset = PLAYLIST_PAGE_LIMIT * (k - 1)
                 /\ k > 1 => lists[k].offset < Len(pls)
           /\ Len(creates) <= 1
           /\ Len(creates) = 1 => calls[Len(calls)].op = "create"
           /\ CallRaised(calls) =>
                 /\ spotify_playlist_id' = ""
                 /\ sp_playlists' = pls
                 /\ calls[Len(calls)].outcome = "error"
           /\ ~CallRaised(calls) /\ owned # {} =>
                 /\ spotify_playlist_id' = pls[SetMin(owned)].id
                 /\ Len(creates) = 0
                 /\ Len(lists) = CeilDiv(SetMin(owned), PLAYLIST_PAGE_LIMIT)
                 /\ sp_playlists' = pls
           /\ ~CallRaised(calls) /\ owned = {} =>
                 /\ Len(creates) = 1
                 /\ spotify_playlist_id' = NEW_PLAYLIST_ID
                 /\ Len(lists) = IF pls = <<>> THEN 1
                                 ELSE CeilDiv(Len(pls), PLAYLIST_PAGE_LIMIT)
                 /\ OwnedByName(sp_playlists') = {Len(pls) + 1}
           /\ pc' = IF spotify_playlist_id' = "" THEN "exit" ELSE "loop"
    ]_vars

\* the user's playlist of the requested name was found on the third page,
\* behind a playlist of the same name owned by somebody else
C26_Witness ==
    /\ pc = "loop"
    /\ Len(sp_calls) = 3
    /\ ~CallRaised(sp_calls)
    /\ sp_calls[3].op = "list"
    /\ spotify_playlist_id = "pl_101"
    /\ sp_playlists[1].name = PLAYLIST_NAME
    /\ sp_playlists[1].owner # USER_ID

\* C27: the score search_track returns with a track is the score of that
\* very track, never the score of another candidate
C27_ScoreOfReturnedTrack ==
    (Scored /\ search_result_tuple.found)
    => search_result_tuple.score = tracks[search_result_tuple.idx].score

\* ---- the match cache of a run (Spec)
\* C28: the match cache starts empty and only grows: an entry, once
\* written, is never changed or removed; a key is written only when the
\* search of an item whose key was absent has returned, with the verdict of
\* that search; and no search is started for an item whose key is present,
\* whatever verdict it holds
C28_CacheWriteOnce ==
    /\ processed_songs_cache = <<>>
    /\ [][LET c == processed_songs_cache
              written == DOMAIN processed_songs_cache' \ DOMAIN c
          IN /\ \A key \in DOMAIN c :
                   /\ key \in DOMAIN processed_songs_cache'
                   /\ processed_songs_cache'[key] = c[key]
             /\ written # {} =>
                   /\ pc = "returned"
                   /\ written = {NormKey(fetched_yt_songs[i])}
                   /\ processed_songs_cache'[NormKey(fetched_yt_songs[i])] =
                         IF search_result_tuple.found
                         THEN search_result_tuple.track ELSE NoTrack
             /\ pc = "returned" => written # {}
             /\ events' = Append(events, CallEvent(i)) =>
                   NormKey(fetched_yt_songs[i]) \notin DOMAIN c
       ]_vars

\* both searches of an item raised, the no-match marker was stored, and a
\* later item with the same key was answered from the cache
C28_Witness ==
    \E j, k \in ItemIdx :
        /\ j < k
        /\ SameKey(j, k)
        /\ \E n \in DOMAIN events :
              /\ events[n].ev = "search"
              /\ events[n].item = j
              /\ events[n].kind = "broader"
              /\ events[n].outcome = "raise"
        /\ NormKey(fetched_yt_songs[j]) \in DOMAIN processed_songs_cache
        /\ processed_songs_cache[NormKey(fetched_yt_songs[j])] = NoTrack
        /\ \E n \in DOMAIN not_found_or_error_migrations :
              /\ not_found_or_error_migrations[n].item = k
              /\ not_found_or_error_migrations[n].status = "NOT_FOUND (Cached)"

\* ---- the results of a run (Spec)
BuiltResults ==
    Range(successful_migrations) \cup Range(not_found_or_error_migrations)

\* C29: a result of a fresh match carries a track and a score between the
\* threshold and 100; a result answered from the cache with a track carries
\* the cached track and no score; a result without a match (fresh, cached
\* or skipped) carries neither a track nor a score
C29_ResultShape ==
    \A m \in BuiltResults :
        /\ m.status \in {"SUCCESS", "SUCCESS (Cached)", "NOT_FOUND",
                         "NOT_FOUND (Cached)", "SKIPPED"}
        /\ m.status = "SUCCESS" =>
              /\ m.spotify_track # NoTrack
              /\ m.match_score # NoScore
              /\ fuzzy_match_threshold <= m.match_score
              /\ m.match_score <= 100
        /\ m.status = "SUCCESS (Cached)" =>
              /\ m.spotify_track # NoTrack
              /\ m.spotify_track =
                    processed_songs_cache[NormKey(fetched_yt_songs[m.item])]
              /\ m.match_score = NoScore
        /\ m.status \in {"NOT_FOUND", "NOT_FOUND (Cached)", "SKIPPED"} =>
              /\ m.spotify_track = NoTrack
              /\ m.match_score = NoScore

\* one run built a fresh match, a cached match and a skipped result
C29_Witness ==
    /\ \E m \in BuiltResults : m.status = "SUCCESS"
    /\ \E m \in BuiltResults : m.status = "SUCCESS (Cached)"
    /\ \E m \in BuiltResults : m.status \in {"SKIPPED", "NOT_FOUND", "NOT_FOUND (Cached)"}

\* ---- the order of the remote operations of a run (Spec)
FETCH_THEN_PLAYLIST == <<"get_playlist_items", "create_or_get_playlist">>

\* add_tracks_to_playlist has been invoked
AddInvoked == add_success # ""

\* C30: the source playlist is fetched first, then the target playlist is
\* looked up or created, and only if the fetch gave an item; searches are
\* made only after both, with a playlist id, item by item in playlist order,
\* and never after the add; add_tracks_to_playlist is invoked at most once,
\* after every item has its result and only if some item matched
C30_RemoteCallOrder ==
    [][/\ remote_calls' # remote_calls =>
             \/ /\ remote_calls' = SubSeq(FETCH_THEN_PLAYLIST, 1, 1)
                /\ events = <<>>
             \/ /\ remote_calls' = FETCH_THEN_PLAYLIST
                /\ fetched_yt_songs # <<>>
                /\ events = <<>>
       /\ events' # events =>
             /\ remote_calls = FETCH_THEN_PLAYLIST
             /\ spotify_playlist_id # ""
             /\ ~AddInvoked
             /\ add_calls = <<>>
             /\ \A m, n \in DOMAIN events' :
                   m < n => events'[m].item <= events'[n].item
       /\ (add_success' # add_success \/ add_calls' # add_calls) =>
             /\ ~AddInvoked
             /\ add_calls = <<>>
             /\ remote_calls = FETCH_THEN_PLAYLIST
             /\ spotify_playlist_id # ""
             /\ Len(successful_migrations) + Len(not_found_or_error_migrations)
                   = Len(fetched_yt_songs)
             /\ successful_migrations # <<>>
             /\ pc # "returned" /\ pc # "targeted" /\ pc # "broader"
    ]_vars

\* the add was invoked after searches for two different items
C30_Witness ==
    /\ AddInvoked
    /\ remote_calls = FETCH_THEN_PLAYLIST
    /\ \E m, n \in DOMAIN events :
          /\ events[m].ev = "search"
          /\ events[n].ev = "search"
          /\ events[m].item < events[n].item

====
